---- MODULE Spec2Model ----
(***************************************************************************)
(* Model of the rule generator of cursor-rules-generator                   *)
(* (src/src/lib/rule-templates.ts) and of the form handlers that feed it.  *)
(*                                                                         *)
(* A document's content is a sequence of tokens.  The token NL is the      *)
(* newline character; every other token is a piece of text without a      *)
(* newline.  A template literal of the source is written as the            *)
(* concatenation of its pieces, in the order of the source, so that the    *)
(* lines of a document are computed (Lines) and not assumed.               *)
(***************************************************************************)
EXTENDS Integers, Sequences, FiniteSets, TLC

VARIABLES formData, rules, generated, genForm, memo, threw,
          calls, heap, load, currentStep, isCopying,
          currentSlide, activeTab, isPlaying, interval, timers, lastTimer, lookup

\* the state of the slideshow component
slideVars == <<currentSlide, activeTab, isPlaying, interval, timers, lastTimer>>

vars == <<formData, rules, generated, genForm, memo, threw, calls, heap, load, currentStep,
          isCopying, slideVars, lookup>>

(***************************************************************************)
(* Bounds of the model.                                                    *)
(***************************************************************************)
MaxTasks == 3
MaxTech == 2

(***************************************************************************)
(* Text helpers.                                                           *)
(***************************************************************************)
NL == "\n"
\* the backquote character, which a TLA+ string cannot hold
BT == "<backquote>"

\* interpolation ${s} of a one-line string: the empty string adds nothing
Text(s) == IF s = "" THEN <<>> ELSE <<s>>

\* Array.prototype.includes
Includes(list, x) == \E i \in 1..Len(list) : list[i] = x

\* Array.prototype.some(t => set.includes(t))
SomeIn(list, set) == \E i \in 1..Len(list) : list[i] \in set

\* the concatenation of the sequences ss[lo], ..., ss[hi], by halving
RECURSIVE FlattenRange(_, _, _)
FlattenRange(ss, lo, hi) ==
    IF lo > hi THEN <<>>
    ELSE IF lo = hi THEN ss[lo]
    ELSE LET mid == (lo + hi) \div 2
         IN  FlattenRange(ss, lo, mid) \o FlattenRange(ss, mid + 1, hi)

Flatten(ss) == FlattenRange(ss, 1, Len(ss))

\* Array.prototype.join(sep) over a list of one-line strings
RECURSIVE Join(_, _)
Join(list, sep) ==
    IF list = <<>> THEN <<>>
    ELSE IF Len(list) = 1 THEN Text(list[1])
    ELSE Text(list[1]) \o <<sep>> \o Join(Tail(list), sep)

\* all sequences over S of length at most n
SeqsUpTo(S, n) == UNION {[1..k -> S] : k \in 0..n}

\* the lines of a content: the maximal runs of tokens between newlines
\* (computed by halving: the last line of the left half continues in the
\* first line of the right half)
RECURSIVE SplitLines(_, _, _)
SplitLines(s, lo, hi) ==
    IF lo > hi THEN << <<>> >>
    ELSE IF lo = hi THEN (IF s[lo] = NL THEN << <<>>, <<>> >> ELSE << <<s[lo]>> >>)
    ELSE LET mid == (lo + hi) \div 2
             a == SplitLines(s, lo, mid)
             b == SplitLines(s, mid + 1, hi)
         IN  SubSeq(a, 1, Len(a) - 1) \o << a[Len(a)] \o b[1] >> \o Tail(b)

Lines(s) == SplitLines(s, 1, Len(s))

(***************************************************************************)
(* Template catalog.  The body of a compiled-in template is opaque data:   *)
(* it is one token, after the frontmatter and the first heading, which are *)
(* transcribed.                                                            *)
(***************************************************************************)
CatalogDoc(description, globs, always, title, body) ==
    << "---", NL,
       "description: ", description, NL,
       "globs: " >> \o Text(globs) \o << NL,
       "alwaysApply: ", always, NL,
       "---", NL,
       "# ", title, NL,
       body >>

STATIC_RULES == <<
    [filename |-> "cursor-rules.mdc",
     content  |-> CatalogDoc("Cursor Rules Location and Structure Guidelines", "",
                             "true", "Cursor Rules Location", "<cursor-rules body>")],
    [filename |-> "self-improve.mdc",
     content  |-> CatalogDoc("Continuous Rule Improvement and Pattern Recognition", "",
                             "true", "Rule Improvement Triggers", "<self-improve body>")] >>

ReactTemplates == <<
    [filename |-> "react-development.mdc",
     content  |-> CatalogDoc("Modern React development patterns and performance optimization",
                             "\"**/*.{tsx,jsx}\"", "false",
                             "React Development Excellence", "<react-development body>")],
    [filename |-> "typescript-quality.mdc",
     content  |-> CatalogDoc("Advanced TypeScript practices for React applications",
                             "\"**/*.{ts,tsx}\"", "true",
                             "TypeScript Excellence in React", "<typescript-quality body>")] >>

VueTemplates == <<
    [filename |-> "vue-development.mdc",
     content  |-> CatalogDoc("Vue.js development best practices and patterns",
                             "\"**/*.vue\"", "false",
                             "Vue.js Development Guidelines", "<vue-development body>")] >>

NextjsTemplates == <<
    [filename |-> "nextjs-development.mdc",
     content  |-> CatalogDoc("Next.js development best practices and patterns",
                             "\"**/*.{tsx,jsx,ts,js}\"", "false",
                             "Next.js Development Guidelines", "<nextjs-development body>")] >>

NodejsTemplates == <<
    [filename |-> "nodejs-development.mdc",
     content  |-> CatalogDoc("Node.js and Express development best practices",
                             "\"**/*.{ts,js}\"", "false",
                             "Node.js Development Guidelines", "<nodejs-development body>")] >>

FrameworkKeys == {"react", "vue", "nextjs", "nodejs"}

\* variant: an unmatched key falls back to the React mapping
FRAMEWORK_TEMPLATES_Fallback(key) ==
    CASE key = "vue"    -> VueTemplates
      [] key = "nextjs" -> NextjsTemplates
      [] key = "nodejs" -> NodejsTemplates
      [] OTHER          -> ReactTemplates

\* FRAMEWORK_TEMPLATES[key]; an absent key is undefined, modelled as no entries
FRAMEWORK_TEMPLATES(key) ==
    CASE key = "react"  -> ReactTemplates
      [] key = "vue"    -> VueTemplates
      [] key = "nextjs" -> NextjsTemplates
      [] key = "nodejs" -> NodejsTemplates
      [] OTHER          -> <<>>

TASK_TEMPLATES(task) ==
    CASE task = "features" ->
             CatalogDoc("Feature development guidelines and best practices", "",
                        "false", "Feature Development Guidelines", "<features body>")
      [] task = "bugs" ->
             CatalogDoc("Systematic bug fixing methodology and best practices based on industry standards",
                        "", "false", "Professional Bug Fixing Methodology", "<bugs body>")
      [] task = "testing" ->
             CatalogDoc("Comprehensive testing guidelines and best practices based on modern testing strategies",
                        "\"**/*.{test,spec}.{ts,tsx,js,jsx}\"", "false",
                        "Modern Testing Excellence Framework", "<testing body>")

(***************************************************************************)
(* Parameterized template renderer.                                        *)
(***************************************************************************)
\* a line of fixed text followed by a newline
Ln(text) == <<text, NL>>

\* a list item "- Label: ${value}" followed by a newline
Item(label, value) == <<label>> \o value \o <<NL>>

\* variant: the single-application paragraph appended to the other two
StructureRequirementsAdditive(projectType) ==
    (IF projectType = "monorepo" THEN
        << NL, "- Use monorepo structure with clear package boundaries",
           NL, "- Shared utilities in common packages",
           NL, "- Independent deployment capabilities" >>
     ELSE IF projectType = "microservices" THEN
        << NL, "- Service-oriented architecture",
           NL, "- Clear API boundaries between services",
           NL, "- Independent scaling and deployment" >>
     ELSE <<>>)
    \o << NL, "- Single application structure",
           NL, "- Clear separation of concerns",
           NL, "- Modular component organization", NL >>

StructureRequirements(projectType) ==
    IF projectType = "monorepo" THEN
        << NL, "- Use monorepo structure with clear package boundaries",
           NL, "- Shared utilities in common packages",
           NL, "- Independent deployment capabilities", NL >>
    ELSE IF projectType = "microservices" THEN
        << NL, "- Service-oriented architecture",
           NL, "- Clear API boundaries between services",
           NL, "- Independent scaling and deployment", NL >>
    ELSE
        << NL, "- Single application structure",
           NL, "- Clear separation of concerns",
           NL, "- Modular component organization", NL >>

\* the box-drawing characters of the source are written in ASCII
DirectoryTree(componentOrganization) ==
    IF componentOrganization = "feature-based" THEN
        << NL, "|-- features/",
           NL, "|   |-- auth/",
           NL, "|   |   |-- components/",
           NL, "|   |   |-- hooks/",
           NL, "|   |   +-- services/",
           NL, "|   +-- dashboard/",
           NL, "|       |-- components/",
           NL, "|       |-- hooks/",
           NL, "|       +-- services/", NL >>
    ELSE
        << NL, "|-- components/",
           NL, "|-- hooks/",
           NL, "|-- services/",
           NL, "|-- pages/",
           NL, "+-- utils/", NL >>

\* variant: the source directory interpolated into the description line
generateProjectStructureRuleDescribed(fd) ==
    Ln("---")
    \o <<"description: ", "Project structure guidelines for ">> \o fd.sourceDirectory \o <<NL>>
    \o Ln("globs: ")
    \o <<"alwaysApply: ", "false", NL>>
    \o Ln("---")
    \o <<"# ", "Project Structure Guidelines", NL>>
    \o <<NL>>
    \o <<"## ", "Directory Organization", NL>>
    \o Item("- Project Type: ", Text(fd.projectType))
    \o Item("- Source Directory: ", fd.sourceDirectory)
    \o Item("- Component Organization: ", Text(fd.componentOrganization))
    \o <<NL>>
    \o <<"## ", "Structure Requirements", NL>>
    \o StructureRequirements(fd.projectType) \o <<NL>>
    \o <<NL>>
    \o Ln("<fence>")
    \o fd.sourceDirectory \o <<NL>>
    \o DirectoryTree(fd.componentOrganization) \o <<NL>>
    \o <<"<fence>">>

generateProjectStructureRule(fd) ==
    Ln("---")
    \o <<"description: ", "Project structure guidelines and organization", NL>>
    \o Ln("globs: ")
    \o <<"alwaysApply: ", "false", NL>>
    \o Ln("---")
    \o <<"# ", "Project Structure Guidelines", NL>>
    \o <<NL>>
    \o <<"## ", "Directory Organization", NL>>
    \o Item("- Project Type: ", Text(fd.projectType))
    \o Item("- Source Directory: ", fd.sourceDirectory)
    \o Item("- Component Organization: ", Text(fd.componentOrganization))
    \o <<NL>>
    \o <<"## ", "File Naming Conventions", NL>>
    \o Item("- Components: ", fd.componentNaming)
    \o Item("- Files: ", fd.fileNaming)
    \o Item("- Import Style: ", fd.importStyle)
    \o <<NL>>
    \o <<"## ", "Structure Requirements", NL>>
    \o StructureRequirements(fd.projectType) \o <<NL>>
    \o <<NL>>
    \o <<"## ", "Best Practices", NL>>
    \o Ln("- Keep related files together")
    \o Ln("- Use consistent naming across the project")
    \o Ln("- Maintain clear import/export patterns")
    \o Ln("- Document architectural decisions")
    \o <<NL>>
    \o <<"## ", "Code Examples:", NL>>
    \o <<NL>>
    \o Ln("<fence>")
    \o fd.sourceDirectory \o <<NL>>
    \o DirectoryTree(fd.componentOrganization) \o <<NL>>
    \o <<"<fence>">>

\* the literal entries of codeQuality that toggle an example block
\* (the first holds backquotes around "any" in the source)
NoAnyRule == "No <backquote>any<backquote> types allowed"
ErrorBoundaryRule == "Enforce error boundaries"

\* codeQuality.map(rule => `- ${rule}`).join('\n')
RECURSIVE BulletJoin(_)
BulletJoin(list) ==
    IF list = <<>> THEN <<>>
    ELSE IF Len(list) = 1 THEN <<"- ">> \o Text(list[1])
    ELSE <<"- ">> \o Text(list[1]) \o <<NL>> \o BulletJoin(Tail(list))

ProperTypingBlock ==
    << NL, "// Good: Proper typing",
       NL, "function processUser(user: UserData): ProcessedUser {",
       NL, "  return {",
       NL, "    ...user,",
       NL, "    displayName: user.name.trim()",
       NL, "  };",
       NL, "}",
       NL,
       NL, "// Bad: Using any",
       NL, "function badProcessUser(user: any): any {",
       NL, "  return user;",
       NL, "}", NL >>

ErrorBoundaryBlock ==
    << NL, "// Good: Error boundary implementation",
       NL, "class ErrorBoundary extends React.Component {",
       NL, "  constructor(props) {",
       NL, "    super(props);",
       NL, "    this.state = { hasError: false };",
       NL, "  }",
       NL,
       NL, "  static getDerivedStateFromError(error) {",
       NL, "    return { hasError: true };",
       NL, "  }",
       NL, "}", NL >>

\* ${formData.codeQuality.includes('No `any` types allowed') ? `...` : ''}
ProperTypingExample(fd) ==
    IF Includes(fd.codeQuality, NoAnyRule) THEN ProperTypingBlock ELSE <<>>

\* variant: the second example block tested against the first literal
ErrorBoundaryExampleCoupled(fd) ==
    IF Includes(fd.codeQuality, NoAnyRule) THEN ErrorBoundaryBlock ELSE <<>>

\* ${formData.codeQuality.includes('Enforce error boundaries') ? `...` : ''}
ErrorBoundaryExample(fd) ==
    IF Includes(fd.codeQuality, ErrorBoundaryRule) THEN ErrorBoundaryBlock ELSE <<>>

generateCodeQualityRule(fd) ==
    Ln("---")
    \o <<"description: ", "Code quality standards and best practices", NL>>
    \o Ln("globs: ")
    \o <<"alwaysApply: ", "true", NL>>
    \o Ln("---")
    \o <<"# ", "Code Quality Standards", NL>>
    \o <<NL>>
    \o <<"## ", "Code Quality Rules", NL>>
    \o BulletJoin(fd.codeQuality) \o <<NL>>
    \o <<NL>>
    \o <<"## ", "Documentation Requirements", NL>>
    \o Item("- Level: ", Text(fd.documentationLevel))
    \o Item("- Comment Styles: ", Join(fd.commentStyle, ", "))
    \o Item("- README Requirements: ", Join(fd.readmeRequirements, ", "))
    \o <<NL>>
    \o <<"## ", "Best Practices", NL>>
    \o Ln("- Write self-documenting code")
    \o Ln("- Follow consistent naming conventions")
    \o Ln("- Implement proper error handling")
    \o Ln("- Maintain test coverage")
    \o Ln("- Use proper type safety")
    \o <<NL>>
    \o <<"## ", "Code Examples:", NL>>
    \o <<NL>>
    \o Ln("<fence>typescript")
    \o Ln("// Good: Following quality standards")
    \o Ln("interface UserData {")
    \o Ln("  id: string;")
    \o Ln("  name: string;")
    \o Ln("  email: string;")
    \o Ln("}")
    \o <<NL>>
    \o ProperTypingExample(fd) \o <<NL>>
    \o <<NL>>
    \o ErrorBoundaryExample(fd) \o <<NL>>
    \o <<"<fence>">>

(***************************************************************************)
(* Command-string deriver.                                                 *)
(***************************************************************************)
\* variant: the yarn test placed before the pnpm test
getPackageManagerYarnFirst(additionalTech) ==
    IF Includes(additionalTech, "yarn") THEN "yarn"
    ELSE IF Includes(additionalTech, "pnpm") THEN "pnpm"
    ELSE IF Includes(additionalTech, "bun-pm") THEN "bun"
    ELSE "npm"

getPackageManager(additionalTech) ==
    IF Includes(additionalTech, "pnpm") THEN "pnpm"
    ELSE IF Includes(additionalTech, "yarn") THEN "yarn"
    ELSE IF Includes(additionalTech, "bun-pm") THEN "bun"
    ELSE "npm"

hasMonorepo(fd) ==
    \/ fd.projectType = "monorepo"
    \/ Includes(fd.additionalTech, "turborepo")
    \/ Includes(fd.additionalTech, "nx")

\* variant: the bun runtime counted among the testing tools
TestingToolsAndBun == {"jest", "vitest", "cypress", "playwright", "bun"}

TestingTools == {"jest", "vitest", "cypress", "playwright"}
LintingTools == {"eslint", "biome", "prettier"}

\* variant: a selected testing task counted as testing tooling
hasTestingOrTask(fd) ==
    SomeIn(fd.additionalTech, TestingTools) \/ Includes(fd.taskTypes, "testing")

hasTesting(fd) == SomeIn(fd.additionalTech, TestingTools)
hasLinting(fd) == SomeIn(fd.additionalTech, LintingTools)
\* variant: vite tested first
buildToolViteFirst(fd) ==
    IF Includes(fd.additionalTech, "vite") THEN "vite"
    ELSE IF Includes(fd.additionalTech, "webpack") THEN "webpack" ELSE "vite"

buildTool(fd) == IF Includes(fd.additionalTech, "webpack") THEN "webpack" ELSE "vite"
\* variant: only the first selected technology tested
hasTypeScriptLeading(fd) ==
    fd.additionalTech # <<>> /\ fd.additionalTech[1] = "typescript"

hasTypeScript(fd) == Includes(fd.additionalTech, "typescript")

installCommand(packageManager) == IF packageManager = "npm" THEN "install" ELSE "add"

\* variant: the flags of yarn and of pnpm/bun exchanged
devInstallFlagSwapped(packageManager) ==
    IF packageManager = "npm" THEN "--save-dev"
    ELSE IF packageManager = "yarn" THEN "-D" ELSE "--dev"

devInstallFlag(packageManager) ==
    IF packageManager = "npm" THEN "--save-dev"
    ELSE IF packageManager = "yarn" THEN "--dev" ELSE "-D"

updateCommand(packageManager) == IF packageManager = "yarn" THEN "upgrade" ELSE "update"

pruneCommand(packageManager) ==
    IF packageManager = "yarn" THEN "autoclean"
    ELSE IF packageManager = "bun" THEN "clean" ELSE "prune"

\* a command string: the text between two backquotes
Cmd(parts) == <<BT>> \o parts \o <<BT>>

\* the command `${packageManager}<rest>`
PmCmd(pm, rest) == Cmd(<<pm, rest>>)

\* the entry "- `${packageManager}<rest>`<text>"
Entry(pm, rest, text) == <<"- ">> \o PmCmd(pm, rest) \o <<text>>

\* the same entry, started on a new line inside a conditional fragment
NlEntry(pm, rest, text) == <<NL>> \o Entry(pm, rest, text)

If(cond, tokens) == IF cond THEN tokens ELSE <<>>

WorkflowCore(fd, pm) ==
    <<"## ", "Getting Started", NL>>
    \o <<"1. Install dependencies: ">> \o PmCmd(pm, " install") \o <<NL>>
    \o <<"2. Start development: ">> \o PmCmd(pm, " dev") \o <<NL>>
    \o <<"3. Build project: ">> \o PmCmd(pm, " build") \o <<NL>>
    \o <<NL>>
    \o <<"## ", "Core Commands", NL>>
    \o Entry(pm, " dev", ": Start development environment") \o <<NL>>
    \o Entry(pm, " build", ": Build for production") \o <<NL>>
    \o Entry(pm, " preview", ": Preview production build locally")
    \o If(hasMonorepo(fd),
          NlEntry(pm, " build:packages", ": Build all packages")
          \o NlEntry(pm, " build:staging", ": Build for staging environment"))
    \o <<NL>>
    \o <<NL>>

WorkflowPackageManagement(fd, pm) ==
    <<"## ", "Package Management", NL>>
    \o Entry(pm, " install", ": Install dependencies") \o <<NL>>
    \o <<"- ">> \o Cmd(<<pm, " ", installCommand(pm), " <package>">>)
       \o <<": Add new dependency", NL>>
    \o <<"- ">> \o Cmd(<<pm, " ", installCommand(pm), " <package> ", devInstallFlag(pm)>>)
       \o <<": Add dev dependency", NL>>
    \o <<"- ">> \o Cmd(<<pm, " ", updateCommand(pm)>>) \o <<": Update all dependencies", NL>>
    \o Entry(pm, " outdated", ": Check for outdated packages")
    \o (IF pm = "yarn" THEN
            <<NL, "- ">> \o Cmd(<<pm, " ", pruneCommand(pm)>>) \o <<": Remove unnecessary files">>
        ELSE IF pm = "bun" THEN
            <<NL, "- ">> \o Cmd(<<pm, " ", pruneCommand(pm)>>) \o <<": Clean cache and artifacts">>
        ELSE
            <<NL, "- ">> \o Cmd(<<pm, " ", pruneCommand(pm)>>) \o <<": Remove unused dependencies">>)
    \o <<NL>>
    \o <<NL>>

WorkflowTypeChecking(fd, pm) ==
    If(hasTypeScript(fd),
       <<"## ", "Type Checking", NL>>
       \o Entry(pm, " type-check", ": Run TypeScript type checking") \o <<NL>>
       \o Entry(pm, " type-check:watch", ": Run type checking in watch mode") \o <<NL>>
       \o <<NL>>)

WorkflowCodeQuality(fd, pm) ==
    If(hasLinting(fd),
       <<"## ", "Code Quality", NL>>
       \o Entry(pm, " lint", ": Run linting checks")
       \o If(Includes(fd.additionalTech, "eslint"),
             NlEntry(pm, " lint:fix", ": Fix auto-fixable lint issues"))
       \o If(Includes(fd.additionalTech, "prettier"),
             NlEntry(pm, " format", ": Format code with Prettier")
             \o NlEntry(pm, " format:check", ": Check if code is formatted"))
       \o If(Includes(fd.additionalTech, "biome"),
             NlEntry(pm, " biome:check", ": Run Biome checks")
             \o NlEntry(pm, " biome:fix", ": Fix issues with Biome"))
       \o <<NL>>
       \o <<NL>>)

WorkflowTesting(fd, pm) ==
    If(hasTesting(fd),
       <<"## ", "Testing", NL>>
       \o If(Includes(fd.additionalTech, "jest"),
             Entry(pm, " test", ": Run Jest tests")
             \o NlEntry(pm, " test:watch", ": Run tests in watch mode")
             \o NlEntry(pm, " test:coverage", ": Run tests with coverage"))
       \o If(Includes(fd.additionalTech, "vitest"),
             Entry(pm, " test", ": Run Vitest tests")
             \o NlEntry(pm, " test:ui", ": Run tests with Vitest UI")
             \o NlEntry(pm, " test:coverage", ": Run tests with coverage"))
       \o If(Includes(fd.additionalTech, "cypress"),
             NlEntry(pm, " cypress:open", ": Open Cypress test runner")
             \o NlEntry(pm, " cypress:run", ": Run Cypress tests headlessly"))
       \o If(Includes(fd.additionalTech, "playwright"),
             NlEntry(pm, " test:e2e", ": Run Playwright end-to-end tests")
             \o NlEntry(pm, " test:e2e:ui", ": Run Playwright tests with UI"))
       \o <<NL>>
       \o <<NL>>)

WorkflowClean(fd, pm) ==
    <<"## ", "Clean Commands", NL>>
    \o Entry(pm, " clean", ": Clean all build artifacts and dependencies") \o <<NL>>
    \o Entry(pm, " clean:build", ": Clean build artifacts only") \o <<NL>>
    \o Entry(pm, " clean:deps", ": Clean node_modules and reinstall")
    \o If(hasMonorepo(fd), NlEntry(pm, " clean:turbo", ": Clean Turborepo cache"))
    \o <<NL>>
    \o Entry(pm, " clean:install", ": Complete clean and fresh install") \o <<NL>>
    \o <<NL>>

WorkflowDocker(fd) ==
    If(Includes(fd.additionalTech, "docker"),
       <<"## ", "Docker Commands", NL>>
       \o <<"- ">> \o Cmd(<<"docker-compose up -d">>) \o <<": Start development services", NL>>
       \o <<"- ">> \o Cmd(<<"docker-compose down">>) \o <<": Stop development services", NL>>
       \o <<"- ">> \o Cmd(<<"docker-compose logs -f">>) \o <<": Follow service logs", NL>>
       \o <<"- ">> \o Cmd(<<"docker-compose exec <service> sh">>) \o <<": Access service shell", NL>>
       \o <<NL>>)

WorkflowGuidelines(fd, pm) ==
    <<"## ", "Development Guidelines", NL>>
    \o <<"1. Always run type-checking before committing">>
    \o If(hasTypeScript(fd), <<": ">> \o PmCmd(pm, " type-check"))
    \o If(hasLinting(fd),
          <<NL, "2. Format code before committing: ">> \o PmCmd(pm, " format")
          \o <<NL, "3. Fix lint issues: ">>
          \o Cmd(<<pm, " lint">> \o If(Includes(fd.additionalTech, "eslint"), <<":fix">>)))
    \o If(hasTesting(fd), <<NL, "4. Run tests before pushing: ">> \o PmCmd(pm, " test"))
    \o <<NL>>
    \o <<"5. Use the appropriate build command for your environment">>
    \o If(hasMonorepo(fd),
          <<NL, "6. For monorepo changes, build affected packages only",
            NL, "7. Keep workspace dependencies in sync">>)
    \o <<NL>>
    \o <<"8. Keep the development environment up to date with ">>
    \o PmCmd(pm, " clean:install") \o <<NL>>
    \o <<NL>>

WorkflowEnvironment(fd, pm) ==
    <<"## ", "Environment Setup", NL>>
    \o <<"- Development: ">> \o PmCmd(pm, " dev")
    \o (IF Includes(fd.additionalTech, "vercel") THEN
            <<NL, "- Vercel Preview: ">> \o Cmd(<<"vercel">>)
            \o <<NL, "- Vercel Production: ">> \o Cmd(<<"vercel --prod">>)
        ELSE IF Includes(fd.additionalTech, "netlify") THEN
            <<NL, "- Netlify Preview: ">> \o Cmd(<<"netlify dev">>)
            \o <<NL, "- Netlify Deploy: ">> \o Cmd(<<"netlify deploy">>)
            \o <<NL, "- Netlify Production: ">> \o Cmd(<<"netlify deploy --prod">>)
        ELSE <<>>)
    \o If(Includes(fd.additionalTech, "docker"),
          <<NL, "- Docker Development: ">> \o Cmd(<<"docker-compose up -d && ", pm, " dev">>))
    \o <<NL>>
    \o <<NL>>

WorkflowTroubleshooting(fd, pm) ==
    <<"## ", "Troubleshooting", NL>>
    \o <<"- If dependencies are acting up: ">> \o PmCmd(pm, " clean:install") \o <<NL>>
    \o <<"- If builds are failing: ">> \o Cmd(<<pm, " clean:build && ", pm, " build">>)
    \o If(hasTypeScript(fd), <<NL, "- If types are incorrect: ">> \o PmCmd(pm, " type-check"))
    \o If(hasMonorepo(fd),
          <<NL, "- If monorepo is out of sync: ">> \o Cmd(<<pm, " clean && ", pm, " install">>))
    \o <<NL>>
    \o <<"- If ", buildTool(fd), " is acting up: Clear cache and restart dev server">>

generateDevelopmentWorkflowRule(fd) ==
    LET packageManager == getPackageManager(fd.additionalTech) IN
    Ln("---")
    \o <<"description: ", "Development workflow and command reference", NL>>
    \o Ln("globs: ")
    \o <<"alwaysApply: ", "false", NL>>
    \o Ln("---")
    \o <<"# ", "Development Workflow Guide", NL>>
    \o <<NL>>
    \o WorkflowCore(fd, packageManager)
    \o WorkflowPackageManagement(fd, packageManager)
    \o WorkflowTypeChecking(fd, packageManager)
    \o WorkflowCodeQuality(fd, packageManager)
    \o WorkflowTesting(fd, packageManager)
    \o WorkflowClean(fd, packageManager)
    \o WorkflowDocker(fd)
    \o WorkflowGuidelines(fd, packageManager)
    \o WorkflowEnvironment(fd, packageManager)
    \o WorkflowTroubleshooting(fd, packageManager)

(***************************************************************************)
(* Rule assembler.                                                         *)
(***************************************************************************)
\* variant: the list outlives the call (a module-level array that is never reset)
LeakedRules == rules

\* const rules = []
EmptyRules == <<>>

\* the record pushed for an entry of STATIC_RULES
StaticRecord(entry) ==
    [filename |-> entry.filename, content |-> entry.content, isStatic |-> TRUE]

\* variant: the flag of the static loop copied to the framework loop
FrameworkRecordStatic(entry) ==
    [filename |-> entry.filename, content |-> entry.content, isStatic |-> TRUE]

\* the record pushed for an entry of the selected framework's mapping
FrameworkRecord(entry) ==
    [filename |-> entry.filename, content |-> entry.content, isStatic |-> FALSE]

\* Object.entries(STATIC_RULES).forEach(push)
StaticDocs == [i \in 1..Len(STATIC_RULES) |-> StaticRecord(STATIC_RULES[i])]

\* FRAMEWORK_TEMPLATES[formData.framework], then Object.entries(...).forEach(push)
FrameworkDocs(fd) ==
    LET frameworkRules == FRAMEWORK_TEMPLATES(fd.framework)
    IN  [i \in 1..Len(frameworkRules) |-> FrameworkRecord(frameworkRules[i])]

\* variant: one push per entry of taskTypes, in the order of the entries
RECURSIVE TaskDocsPerEntry(_)
TaskDocsPerEntry(fd) ==
    IF fd.taskTypes = <<>> THEN <<>>
    ELSE If(Head(fd.taskTypes) \in {"features", "bugs", "testing"},
            <<[filename |-> (CASE Head(fd.taskTypes) = "features" -> "feature-development.mdc"
                               [] Head(fd.taskTypes) = "bugs" -> "bug-fixing.mdc"
                               [] OTHER -> "testing-guidelines.mdc"),
               content |-> TASK_TEMPLATES(Head(fd.taskTypes)), isStatic |-> FALSE]>>)
         \o TaskDocsPerEntry([fd EXCEPT !.taskTypes = Tail(fd.taskTypes)])

\* variant: the testing document pushed under the name of the bug document
TaskDocsClash(fd) ==
    If(Includes(fd.taskTypes, "features"),
       <<[filename |-> "feature-development.mdc",
          content |-> TASK_TEMPLATES("features"), isStatic |-> FALSE]>>)
    \o If(Includes(fd.taskTypes, "bugs"),
       <<[filename |-> "bug-fixing.mdc",
          content |-> TASK_TEMPLATES("bugs"), isStatic |-> FALSE]>>)
    \o If(Includes(fd.taskTypes, "testing"),
       <<[filename |-> "bug-fixing.mdc",
          content |-> TASK_TEMPLATES("testing"), isStatic |-> FALSE]>>)

\* the three conditional pushes of the task documents
TaskDocs(fd) ==
    If(Includes(fd.taskTypes, "features"),
       <<[filename |-> "feature-development.mdc",
          content |-> TASK_TEMPLATES("features"), isStatic |-> FALSE]>>)
    \o If(Includes(fd.taskTypes, "bugs"),
       <<[filename |-> "bug-fixing.mdc",
          content |-> TASK_TEMPLATES("bugs"), isStatic |-> FALSE]>>)
    \o If(Includes(fd.taskTypes, "testing"),
       <<[filename |-> "testing-guidelines.mdc",
          content |-> TASK_TEMPLATES("testing"), isStatic |-> FALSE]>>)

\* variant: the code-quality document pushed before the task documents
generateRulesQualityFirst(fd) ==
    EmptyRules
    \o StaticDocs
    \o FrameworkDocs(fd)
    \o <<[filename |-> "project-structure.mdc",
          content |-> generateProjectStructureRule(fd), isStatic |-> FALSE]>>
    \o <<[filename |-> "development-workflow.mdc",
          content |-> generateDevelopmentWorkflowRule(fd), isStatic |-> FALSE]>>
    \o <<[filename |-> "code-quality.mdc",
          content |-> generateCodeQualityRule(fd), isStatic |-> FALSE]>>
    \o TaskDocs(fd)

generateRules(fd) ==
    EmptyRules
    \o StaticDocs
    \o FrameworkDocs(fd)
    \o <<[filename |-> "project-structure.mdc",
          content |-> generateProjectStructureRule(fd), isStatic |-> FALSE]>>
    \o <<[filename |-> "development-workflow.mdc",
          content |-> generateDevelopmentWorkflowRule(fd), isStatic |-> FALSE]>>
    \o TaskDocs(fd)
    \o <<[filename |-> "code-quality.mdc",
          content |-> generateCodeQualityRule(fd), isStatic |-> FALSE]>>

(***************************************************************************)
(* Form states.                                                            *)
(***************************************************************************)
\* the form of the checked-in sample documents; absent names the list-valued
\* fields that are undefined (the list given for such a field is not read)
DefaultForm ==
    [framework             |-> "",
     additionalTech        |-> <<>>,
     projectType           |-> "single",
     sourceDirectory       |-> <<"src/">>,
     componentOrganization |-> "type-based",
     componentNaming       |-> <<"camelCase">>,
     fileNaming            |-> <<"camelCase">>,
     importStyle           |-> <<"relative">>,
     codeQuality           |-> <<"Strict TypeScript mode">>,
     documentationLevel    |-> "minimal",
     commentStyle          |-> <<"Inline comments for complex logic">>,
     readmeRequirements    |-> <<"Setup and installation instructions">>,
     taskTypes             |-> <<>>,
     absent                |-> {}]

\* every free-text field the empty string, every list empty
EmptyForm ==
    [framework             |-> "",
     additionalTech        |-> <<>>,
     projectType           |-> "",
     sourceDirectory       |-> <<>>,
     componentOrganization |-> "",
     componentNaming       |-> <<>>,
     fileNaming            |-> <<>>,
     importStyle           |-> <<>>,
     codeQuality           |-> <<>>,
     documentationLevel    |-> "",
     commentStyle          |-> <<>>,
     readmeRequirements    |-> <<>>,
     taskTypes             |-> <<>>,
     absent                |-> {}]

\* the form of the end-to-end example
ExampleTech == <<"typescript", "pnpm", "eslint">>
ExampleForm ==
    [DefaultForm EXCEPT !.framework = "nextjs", !.additionalTech = ExampleTech,
                        !.taskTypes = <<"testing">>]

\* "constructor" is a property every object inherits: the lookup is truthy
\* and has no own entries; "svelte" is no property at all
FrameworkInputs == FrameworkKeys \cup {"", "svelte", "constructor"}
TaskInputs == {"features", "bugs", "testing", "refactoring"}
RecognisedTech ==
    {"pnpm", "yarn", "bun-pm", "turborepo", "nx", "jest", "vitest", "cypress",
     "playwright", "eslint", "biome", "prettier", "webpack", "typescript",
     "docker", "vercel", "netlify"}
TechInputs == RecognisedTech \cup {"bun", "tailwind"}
\* a free text of several lines that imitates a frontmatter and a heading
HostileText == <<"x", NL, "---", NL, "description: ", "y", NL, "# ", "z">>
QualityInputs == {NoAnyRule, ErrorBoundaryRule, "Strict TypeScript mode", ""}
MaxQuality == 2

AssemblyForms ==
    {[DefaultForm EXCEPT !.framework = f, !.taskTypes = tt, !.additionalTech = at] :
        f \in FrameworkInputs, tt \in SeqsUpTo(TaskInputs, MaxTasks),
        at \in {<<>>, ExampleTech}}

WorkflowForms ==
    {[DefaultForm EXCEPT !.additionalTech = at] : at \in SeqsUpTo(TechInputs, MaxTech)}
    \cup {[DefaultForm EXCEPT !.additionalTech = at, !.projectType = "monorepo"] :
             at \in SeqsUpTo(TechInputs, 1)}

StructureForms ==
    {[DefaultForm EXCEPT !.sourceDirectory = sd, !.componentNaming = cn,
                         !.fileNaming = fn, !.importStyle = im,
                         !.projectType = pt, !.componentOrganization = co] :
        sd \in {<<>>, <<"src/">>, HostileText}, cn \in {<<>>, HostileText},
        fn \in {<<>>, HostileText}, im \in {<<>>, HostileText},
        pt \in {"single", "monorepo", "microservices", ""},
        co \in {"type-based", "feature-based", ""}}

QualityForms ==
    {[DefaultForm EXCEPT !.codeQuality = cq, !.documentationLevel = dl,
                         !.commentStyle = cs, !.readmeRequirements = rr] :
        cq \in SeqsUpTo(QualityInputs, MaxQuality), dl \in {"", "comprehensive"},
        cs \in {<<>>, <<"JSDoc", "TODO comments">>},
        rr \in {<<>>, <<"API documentation", "Contributing guidelines">>}}

\* the list-valued fields generateRules calls a method of: includes and some
\* of additionalTech, includes of taskTypes, map and includes of codeQuality,
\* join of commentStyle and of readmeRequirements
ListFields ==
    {"additionalTech", "taskTypes", "codeQuality", "commentStyle", "readmeRequirements"}

\* a method call on undefined throws a TypeError
Throws(fd) == fd.absent \cap ListFields # {}

\* forms in which one list-valued field is absent (undefined), and the empty
\* form without its three lists of the code-quality document
AbsentForms ==
    {[DefaultForm EXCEPT !.absent = {f}] : f \in ListFields}
    \cup {[EmptyForm EXCEPT !.absent = {"codeQuality", "commentStyle", "readmeRequirements"}]}

FormStates ==
    AssemblyForms \cup WorkflowForms \cup StructureForms \cup QualityForms
    \cup {EmptyForm} \cup AbsentForms

(***************************************************************************)
(* generateRules statement by statement.  Each invocation holds the form   *)
(* it was given and the address of its local list; heap maps the addresses *)
(* of the lists allocated so far to their contents.                        *)
(***************************************************************************)
Invocations == {1, 2}

\* the forms given to the invocations that run side by side
CallForms ==
    {DefaultForm, ExampleForm,
     [DefaultForm EXCEPT !.framework = "react", !.taskTypes = <<"bugs", "features">>]}

IdleCalls == [i \in Invocations |-> [pc |-> "idle", form |-> DefaultForm, list |-> 0]]

\* variant: one list of the module, allocated by the first invocation and
\* taken again by the later ones
SharedList(h) == IF h = <<>> THEN Len(h) + 1 ELSE Len(h)

\* const rules = []: the address of a list no one holds yet
NewList(h) == Len(h) + 1

\* the records the statement at pc pushes, and the statement after it
Pushed(pc, fd) ==
    CASE pc = "static"    -> StaticDocs
      [] pc = "framework" -> FrameworkDocs(fd)
      [] pc = "structure" -> <<[filename |-> "project-structure.mdc",
                                content |-> generateProjectStructureRule(fd),
                                isStatic |-> FALSE]>>
      [] pc = "workflow"  -> <<[filename |-> "development-workflow.mdc",
                                content |-> generateDevelopmentWorkflowRule(fd),
                                isStatic |-> FALSE]>>
      [] pc = "tasks"     -> TaskDocs(fd)
      [] pc = "quality"   -> <<[filename |-> "code-quality.mdc",
                                content |-> generateCodeQualityRule(fd),
                                isStatic |-> FALSE]>>

After(pc) ==
    CASE pc = "static"    -> "framework"
      [] pc = "framework" -> "structure"
      [] pc = "structure" -> "workflow"
      [] pc = "workflow"  -> "tasks"
      [] pc = "tasks"     -> "quality"
      [] pc = "quality"   -> "done"

\* invocation i is entered with the form fd and allocates its list
Call(i, fd) ==
    /\ calls[i].pc = "idle"
    /\ LET a == NewList(heap)
       IN  /\ heap' = IF a > Len(heap) THEN Append(heap, <<>>) ELSE heap
           /\ calls' = [calls EXCEPT ![i] = [pc |-> "static", form |-> fd, list |-> a]]
    /\ UNCHANGED <<formData, rules, generated, genForm, memo, threw, load, currentStep, isCopying, slideVars, lookup>>

\* invocation i executes its next statement: the pushes onto its list; the
\* statement after the last push returns the list
Step(i) ==
    /\ calls[i].pc \notin {"idle", "done"}
    /\ heap' = [heap EXCEPT ![calls[i].list] = @ \o Pushed(calls[i].pc, calls[i].form)]
    /\ calls' = [calls EXCEPT ![i].pc = After(@)]
    /\ UNCHANGED <<formData, rules, generated, genForm, memo, threw, load, currentStep, isCopying, slideVars, lookup>>

(***************************************************************************)
(* The file loader of rule-loader.ts.  The outcome of the read is the      *)
(* environment's: the content of the file, or an Error of the file system. *)
(***************************************************************************)
\* the filePath of the entries of RULE_METADATA, and a path of no file
RuleFilePaths ==
    {"src/rules/static/cursor-rules.mdc",
     "src/rules/static/self-improve.mdc",
     "src/rules/frameworks/react/react-development.mdc",
     "src/rules/frameworks/react/typescript-quality.mdc",
     "src/rules/frameworks/java/java-development.mdc",
     "src/rules/frameworks/java/spring-boot-development.mdc",
     "src/rules/frameworks/java/quarkus-development.mdc",
     "src/rules/frameworks/java/micronaut-development.mdc",
     "src/rules/frameworks/java/dropwizard-development.mdc",
     "src/rules/frameworks/golang/golang-development.mdc",
     "src/rules/frameworks/golang/gin-development.mdc",
     "src/rules/frameworks/golang/echo-development.mdc",
     "src/rules/frameworks/golang/fiber-development.mdc",
     "src/rules/frameworks/golang/gorilla-mux-development.mdc",
     "src/rules/frameworks/vue/vue-development.mdc",
     "src/rules/frameworks/react/nextjs-development.mdc",
     "src/rules/frameworks/nodejs/nodejs-development.mdc",
     "src/rules/tasks/features.mdc",
     "src/rules/tasks/bugs.mdc",
     "src/rules/tasks/testing.mdc"}

FilePathInputs == RuleFilePaths \cup {"src/rules/missing.mdc", ""}

\* the content of the file at filePath, were it read whole
FileContent(filePath) == <<"---", NL, "description: ", filePath, NL, "---", NL, "# ", filePath>>

\* the messages of the errors the import of fs and the read may throw
ReadErrors ==
    {"ENOENT: no such file or directory", "EACCES: permission denied",
     "EISDIR: illegal operation on a directory", "EMFILE: too many open files",
     "Cannot find module 'fs'"}

\* what the try block ends in: the content read, or a thrown Error
ReadOutcomes(filePath) ==
    {[ok |-> TRUE, content |-> FileContent(filePath), isError |-> FALSE, message |-> ""]}
    \cup {[ok |-> FALSE, content |-> <<>>, isError |-> TRUE, message |-> m] : m \in ReadErrors}

NoLoad ==
    [settled |-> "pending", filePath |-> "", value |-> <<>>, message |-> <<>>,
     outcome |-> [ok |-> FALSE, content |-> <<>>, isError |-> FALSE, message |-> ""]]

\* variant: the catch block returns an empty content
SettledSwallowing(filePath, outcome) ==
    [settled |-> "resolved", value |-> outcome.content, message |-> <<>>]

\* return content, or throw new Error(`Failed to load rule from ${filePath}: ${...}`)
Settled(filePath, outcome) ==
    IF outcome.ok
    THEN [settled |-> "resolved", value |-> outcome.content, message |-> <<>>]
    ELSE [settled |-> "rejected", value |-> <<>>,
          message |-> <<"Failed to load rule from ", filePath, ": ",
                        IF outcome.isError THEN outcome.message ELSE "Unknown error">>]

\* one call loadRuleContent(filePath), from the call to the settled promise
loadRuleContent(filePath) ==
    /\ \E outcome \in ReadOutcomes(filePath) :
           LET r == Settled(filePath, outcome)
           IN  load' = [settled |-> r.settled, filePath |-> filePath, value |-> r.value,
                        message |-> r.message, outcome |-> outcome]
    /\ UNCHANGED <<formData, rules, generated, genForm, memo, threw, calls, heap, currentStep, isCopying, slideVars, lookup>>

(***************************************************************************)
(* Rule loader tables and their lookups (rule-loader.ts).  An optional     *)
(* field of a record is the empty set when absent and the set of its value *)
(* when present.                                                           *)
(***************************************************************************)
RULE_METADATA ==
    << [id |-> "cursor-rules", category |-> "static", technology |-> {},
        framework |-> {},
        filePath |-> "src/rules/static/cursor-rules.mdc"],
       [id |-> "self-improve", category |-> "static", technology |-> {},
        framework |-> {},
        filePath |-> "src/rules/static/self-improve.mdc"],
       [id |-> "react-development", category |-> "framework", technology |-> {"react"},
        framework |-> {"react"},
        filePath |-> "src/rules/frameworks/react/react-development.mdc"],
       [id |-> "typescript-quality", category |-> "framework", technology |-> {"react"},
        framework |-> {"react"},
        filePath |-> "src/rules/frameworks/react/typescript-quality.mdc"],
       [id |-> "java-development", category |-> "framework", technology |-> {"java"},
        framework |-> {},
        filePath |-> "src/rules/frameworks/java/java-development.mdc"],
       [id |-> "spring-boot-development", category |-> "framework", technology |-> {"java"},
        framework |-> {"spring-boot"},
        filePath |-> "src/rules/frameworks/java/spring-boot-development.mdc"],
       [id |-> "quarkus-development", category |-> "framework", technology |-> {"java"},
        framework |-> {"quarkus"},
        filePath |-> "src/rules/frameworks/java/quarkus-development.mdc"],
       [id |-> "micronaut-development", category |-> "framework", technology |-> {"java"},
        framework |-> {"micronaut"},
        filePath |-> "src/rules/frameworks/java/micronaut-development.mdc"],
       [id |-> "dropwizard-development", category |-> "framework", technology |-> {"java"},
        framework |-> {"dropwizard"},
        filePath |-> "src/rules/frameworks/java/dropwizard-development.mdc"],
       [id |-> "golang-development", category |-> "framework", technology |-> {"golang"},
        framework |-> {},
        filePath |-> "src/rules/frameworks/golang/golang-development.mdc"],
       [id |-> "gin-development", category |-> "framework", technology |-> {"golang"},
        framework |-> {"gin"},
        filePath |-> "src/rules/frameworks/golang/gin-development.mdc"],
       [id |-> "echo-development", category |-> "framework", technology |-> {"golang"},
        framework |-> {"echo"},
        filePath |-> "src/rules/frameworks/golang/echo-development.mdc"],
       [id |-> "fiber-development", category |-> "framework", technology |-> {"golang"},
        framework |-> {"fiber"},
        filePath |-> "src/rules/frameworks/golang/fiber-development.mdc"],
       [id |-> "gorilla-mux-development", category |-> "framework", technology |-> {"golang"},
        framework |-> {"gorilla-mux"},
        filePath |-> "src/rules/frameworks/golang/gorilla-mux-development.mdc"],
       [id |-> "vue-development", category |-> "framework", technology |-> {"vue"},
        framework |-> {"vue"},
        filePath |-> "src/rules/frameworks/vue/vue-development.mdc"],
       [id |-> "nextjs-development", category |-> "framework", technology |-> {"react"},
        framework |-> {"nextjs"},
        filePath |-> "src/rules/frameworks/react/nextjs-development.mdc"],
       [id |-> "nodejs-development", category |-> "framework", technology |-> {"nodejs"},
        framework |-> {"nodejs"},
        filePath |-> "src/rules/frameworks/nodejs/nodejs-development.mdc"],
       [id |-> "features", category |-> "task", technology |-> {},
        framework |-> {},
        filePath |-> "src/rules/tasks/features.mdc"],
       [id |-> "bugs", category |-> "task", technology |-> {},
        framework |-> {},
        filePath |-> "src/rules/tasks/bugs.mdc"],
       [id |-> "testing", category |-> "task", technology |-> {},
        framework |-> {},
        filePath |-> "src/rules/tasks/testing.mdc"] >>

TECHNOLOGY_CONFIG ==
    << [id |-> "react",
        frameworks |->
          << [id |-> "react", rules |-> <<"react-development", "typescript-quality">>],
             [id |-> "nextjs", rules |-> <<"nextjs-development", "react-development", "typescript-quality">>] >>],
       [id |-> "java",
        frameworks |->
          << [id |-> "spring-boot", rules |-> <<"spring-boot-development", "java-development">>],
             [id |-> "quarkus", rules |-> <<"quarkus-development", "java-development">>],
             [id |-> "micronaut", rules |-> <<"micronaut-development", "java-development">>],
             [id |-> "dropwizard", rules |-> <<"dropwizard-development", "java-development">>] >>],
       [id |-> "golang",
        frameworks |->
          << [id |-> "gin", rules |-> <<"gin-development", "golang-development">>],
             [id |-> "echo", rules |-> <<"echo-development", "golang-development">>],
             [id |-> "fiber", rules |-> <<"fiber-development", "golang-development">>],
             [id |-> "gorilla-mux", rules |-> <<"gorilla-mux-development", "golang-development">>] >>],
       [id |-> "vue",
        frameworks |->
          << [id |-> "vue", rules |-> <<"vue-development">>] >>],
       [id |-> "nodejs",
        frameworks |->
          << [id |-> "nodejs", rules |-> <<"nodejs-development">>] >>] >>

getRulesByTechnology(technologyId) ==
    SelectSeq(RULE_METADATA, LAMBDA rule : rule.technology = {technologyId})

getRulesByFramework(frameworkId) ==
    SelectSeq(RULE_METADATA, LAMBDA rule : rule.framework = {frameworkId})

getRulesByCategory(category) ==
    SelectSeq(RULE_METADATA, LAMBDA rule : rule.category = category)

\* variant: the record found by its framework
getRuleByIdOfFramework(id) ==
    LET found == {i \in 1..Len(RULE_METADATA) : RULE_METADATA[i].framework = {id}}
    IN  IF found = {} THEN <<>>
        ELSE <<RULE_METADATA[CHOOSE i \in found : \A j \in found : i <= j]>>

\* RULE_METADATA.find(rule => rule.id === id): the first record of that id,
\* as a list of one record, or the empty list for undefined
getRuleById(id) ==
    LET found == {i \in 1..Len(RULE_METADATA) : RULE_METADATA[i].id = id}
    IN  IF found = {} THEN <<>>
        ELSE <<RULE_METADATA[CHOOSE i \in found : \A j \in found : i <= j]>>

LookupFunctions ==
    {"getRulesByTechnology", "getRulesByFramework", "getRulesByCategory", "getRuleById"}

\* the keys looked up: every id, technology, framework and category of the
\* two tables, and keys of neither
UnknownKeys == {"", "svelte", "React", "constructor", "dynamic"}

TableKeys ==
    {RULE_METADATA[i].id : i \in 1..Len(RULE_METADATA)}
    \cup {RULE_METADATA[i].category : i \in 1..Len(RULE_METADATA)}
    \cup UNION {RULE_METADATA[i].technology \cup RULE_METADATA[i].framework :
                   i \in 1..Len(RULE_METADATA)}
    \cup {TECHNOLOGY_CONFIG[i].id : i \in 1..Len(TECHNOLOGY_CONFIG)}

KeyInputs == TableKeys \cup UnknownKeys

NoLookup == [fn |-> "", key |-> "", returned |-> <<>>, threw |-> FALSE]

\* one call of a lookup; none of the four has a throwing path
Lookup(fn, key) ==
    /\ lookup' = [fn |-> fn, key |-> key, threw |-> FALSE,
                  returned |-> CASE fn = "getRulesByTechnology" -> getRulesByTechnology(key)
                                 [] fn = "getRulesByFramework" -> getRulesByFramework(key)
                                 [] fn = "getRulesByCategory" -> getRulesByCategory(key)
                                 [] fn = "getRuleById" -> getRuleById(key)]
    /\ UNCHANGED <<formData, rules, generated, genForm, memo, threw, calls, heap, load,
                   currentStep, isCopying, slideVars>>

\* no invocation under way, no load made, the wizard on its first step, no
\* copy in progress, the slideshow as mounted, no lookup made
Quiescent ==
    /\ calls = IdleCalls
    /\ heap = <<>>
    /\ load = NoLoad
    /\ currentStep = 1
    /\ isCopying = FALSE
    /\ currentSlide = 0
    /\ activeTab = "tweets"
    /\ isPlaying = TRUE
    /\ interval = 1
    /\ timers = {[id |-> 1, totalSlides |-> 3]}
    /\ lastTimer = 1
    /\ lookup = NoLookup

(***************************************************************************)
(* State machine.  formData is the wizard's form; rules is the list the    *)
(* last generateRules call returned and genForm the form it was given;     *)
(* memo records one earlier call, chosen freely, its result, and whether a *)
(* call on another form has been made since.                               *)
(***************************************************************************)
NoMemo(fd) == [has |-> FALSE, form |-> fd, rules |-> <<>>, between |-> FALSE]

Init ==
    /\ formData \in FormStates
    /\ rules = <<>>
    /\ generated = FALSE
    /\ genForm = formData
    /\ memo = NoMemo(formData)
    /\ threw = FALSE
    /\ Quiescent

\* one invocation generateRules(formData): it returns a list, or it throws and
\* returns none
Generate ==
    /\ threw' = Throws(formData)
    /\ IF Throws(formData)
       THEN UNCHANGED <<rules, generated, genForm, memo>>
       ELSE /\ rules' = generateRules(formData)
            /\ generated' = TRUE
            /\ genForm' = formData
            /\ memo' \in {[memo EXCEPT !.between = @ \/ (memo.has /\ formData # memo.form)]}
                         \cup (IF generated
                                THEN {[has |-> TRUE, form |-> genForm, rules |-> rules,
                                       between |-> FALSE]}
                                ELSE {})
    /\ UNCHANGED <<formData, calls, heap, load, currentStep, isCopying, slideVars, lookup>>

Next == Generate

Spec == Init /\ [][Next]_vars

(***************************************************************************)
(* The form handlers of the wizard steps, and the specification in which   *)
(* generation alternates with edits of the form.                           *)
(***************************************************************************)
\* framework-selection.tsx: the four radio buttons
frameworks == <<"react", "vue", "nextjs", "nodejs">>

handleFrameworkChange(framework) ==
    /\ formData' = [formData EXCEPT !.framework = framework]
    /\ UNCHANGED <<rules, generated, genForm, memo, threw, calls, heap, load, currentStep, isCopying, slideVars, lookup>>

isSelected(techId) == Includes(formData.additionalTech, techId)

\* variant: an unchecked box leaves the selection as it was
updatedTechKeeping(additionalTech, techId, checked) ==
    IF checked THEN Append(additionalTech, techId) ELSE additionalTech

\* checked ? [...formData.additionalTech, techId]
\*         : formData.additionalTech.filter(t => t !== techId)
updatedTech(additionalTech, techId, checked) ==
    IF checked THEN Append(additionalTech, techId)
    ELSE SelectSeq(additionalTech, LAMBDA t : t # techId)

handleTechChange(techId, checked) ==
    /\ formData' = [formData EXCEPT !.additionalTech =
                       updatedTech(formData.additionalTech, techId, checked)]
    /\ UNCHANGED <<rules, generated, genForm, memo, threw, calls, heap, load, currentStep, isCopying, slideVars, lookup>>

\* the checkboxes exercised between two generations
EditedTech == {"typescript", "eslint"}

InitEdit ==
    /\ formData \in {DefaultForm, [DefaultForm EXCEPT !.taskTypes = <<"testing">>]}
    /\ rules = <<>>
    /\ generated = FALSE
    /\ genForm = formData
    /\ memo = NoMemo(formData)
    /\ threw = FALSE
    /\ Quiescent

NextEdit ==
    \/ Generate
    \/ \E i \in 1..Len(frameworks) : handleFrameworkChange(frameworks[i])
    \/ \E t \in EditedTech : handleTechChange(t, ~isSelected(t))

SpecEdit == InitEdit /\ [][NextEdit]_vars

(***************************************************************************)
(* The steps of the six-step wizard: the technology selection is step 1,   *)
(* the review is step 6.                                                   *)
(***************************************************************************)
\* review.tsx: "This will create {2 + formData.taskTypes.length + 2} cursor
\* rule files"
AnnouncedFiles(fd) == 2 + Len(fd.taskTypes) + 2

\* "Step k of 6"
TotalSteps == 6

\* variant: the monorepo preset with the pnpm marker
presetsWithPnpm ==
    << <<"typescript", "react", "nextjs", "shadcn", "tailwind", "drizzle", "postgresql",
         "react-query", "zod", "biome", "playwright", "vercel">>,
       <<"javascript", "react", "nodejs", "express", "mongodb", "redux",
         "jest", "eslint", "prettier", "docker">>,
       <<"typescript", "vue", "nodejs", "tailwind", "postgresql", "drizzle",
         "vitest", "biome", "netlify">>,
       <<"typescript", "react", "nextjs", "mui", "nestjs", "postgresql",
         "drizzle", "graphql", "turborepo", "pnpm", "jest", "playwright", "docker", "aws">> >>

\* tech-stack-selection.tsx: the four presets
presets ==
    << <<"typescript", "react", "nextjs", "shadcn", "tailwind", "drizzle", "postgresql",
         "react-query", "zod", "biome", "playwright", "vercel">>,
       <<"javascript", "react", "nodejs", "express", "mongodb", "redux",
         "jest", "eslint", "prettier", "docker">>,
       <<"typescript", "vue", "nodejs", "tailwind", "postgresql", "drizzle",
         "vitest", "biome", "netlify">>,
       <<"typescript", "react", "nextjs", "mui", "nestjs", "postgresql",
         "drizzle", "graphql", "turborepo", "jest", "playwright", "docker", "aws">> >>

\* variant: the preset added to the selection
applyPresetMerging(presetTechs) ==
    /\ formData' = [formData EXCEPT !.additionalTech = formData.additionalTech \o presetTechs]
    /\ UNCHANGED <<rules, generated, genForm, memo, threw, calls, heap, load, currentStep, isCopying, slideVars, lookup>>

applyPreset(presetTechs) ==
    /\ formData' = [formData EXCEPT !.additionalTech = presetTechs]
    /\ UNCHANGED <<rules, generated, genForm, memo, threw, calls, heap, load, currentStep, isCopying, slideVars, lookup>>

clearAll ==
    /\ formData' = [formData EXCEPT !.additionalTech = <<>>]
    /\ UNCHANGED <<rules, generated, genForm, memo, threw, calls, heap, load, currentStep, isCopying, slideVars, lookup>>

\* the checkbox exercised on the technology step
WizardTech == {"react"}

\* variant: the step after the next one
nextStepSkipping ==
    /\ currentStep < TotalSteps
    /\ currentStep' = IF currentStep + 2 <= TotalSteps THEN currentStep + 2 ELSE TotalSteps
    /\ UNCHANGED <<formData, rules, generated, genForm, memo, threw, calls, heap, load, isCopying, slideVars, lookup>>

\* "Next Step" on a step before the last
nextStep ==
    /\ currentStep < TotalSteps
    /\ currentStep' = currentStep + 1
    /\ UNCHANGED <<formData, rules, generated, genForm, memo, threw, calls, heap, load, isCopying, slideVars, lookup>>

\* "Previous" on a step after the first
prevStep ==
    /\ currentStep > 1
    /\ currentStep' = currentStep - 1
    /\ UNCHANGED <<formData, rules, generated, genForm, memo, threw, calls, heap, load, isCopying, slideVars, lookup>>

\* review.tsx: the next action of step 6 and its button call generateRules()
handleGenerate ==
    /\ currentStep = TotalSteps
    /\ Generate

\* the panel of the generated rules
hasGeneratedRules(generatedRules) == Len(generatedRules) > 0

PanelMessage(generatedRules) ==
    IF hasGeneratedRules(generatedRules)
    THEN "Your custom cursor rules are ready"
    ELSE "Your custom cursor rules will appear here"

\* variant: the button disabled by the empty list only
CopyAllDisabledWhenEmpty(generatedRules, copying) == ~hasGeneratedRules(generatedRules)

\* disabled={!hasGeneratedRules || isCopying}
CopyAllDisabled(generatedRules, copying) == ~hasGeneratedRules(generatedRules) \/ copying

\* disabled={!hasGeneratedRules}
DownloadDisabled(generatedRules) == ~hasGeneratedRules(generatedRules)

\* a click on the enabled Copy All button: the copy to the clipboard starts
handleCopyAll ==
    /\ ~CopyAllDisabled(rules, isCopying)
    /\ isCopying' = TRUE
    /\ UNCHANGED <<formData, rules, generated, genForm, memo, threw, calls, heap, load,
                   currentStep, slideVars, lookup>>

\* the copy to the clipboard settles
copySettled ==
    /\ isCopying
    /\ isCopying' = FALSE
    /\ UNCHANGED <<formData, rules, generated, genForm, memo, threw, calls, heap, load,
                   currentStep, slideVars, lookup>>

\* the wizard opens on its first step with no framework and no technology
InitWizard ==
    /\ formData = DefaultForm
    /\ rules = <<>>
    /\ generated = FALSE
    /\ genForm = formData
    /\ memo = NoMemo(formData)
    /\ threw = FALSE
    /\ Quiescent

NextWizard ==
    \/ \E t \in WizardTech : currentStep = 1 /\ handleTechChange(t, ~isSelected(t))
    \/ \E i \in 1..Len(presets) : currentStep = 1 /\ applyPreset(presets[i])
    \/ currentStep = 1 /\ clearAll
    \/ nextStep
    \/ prevStep
    \/ handleGenerate
    \/ handleCopyAll
    \/ copySettled

SpecWizard == InitWizard /\ [][NextWizard]_vars

(***************************************************************************)
(* The technology step alone: every checkbox of the catalog, the presets   *)
(* and "Clear all".                                                        *)
(***************************************************************************)
\* tech-stack-selection.tsx: the ids of the catalog, category after category
technologies ==
    <<"typescript", "javascript", "python", "nodejs", "deno", "bun",
      "react", "nextjs", "vue", "svelte", "angular", "solid",
      "express", "fastify", "nestjs",
      "tailwind", "shadcn", "mui", "mantine", "chakra", "antd", "bootstrap", "bulma",
      "drizzle", "prisma", "postgresql", "mysql", "sqlite", "mongodb", "redis",
      "supabase", "firebase", "planetscale", "neon",
      "react-query", "redux", "zustand", "jotai",
      "graphql", "trpc",
      "vite", "webpack",
      "jest", "vitest", "cypress", "playwright", "storybook",
      "biome", "eslint", "prettier",
      "zod", "valibot", "yup",
      "turborepo", "nx",
      "auth0", "stripe",
      "framer", "gsap", "threejs", "d3",
      "vercel", "netlify", "railway", "docker", "aws", "gcp", "github-actions",
      "socketio">>

\* a box is checked by hand only while fewer than MaxSelected boxes are checked;
\* a checked box is unchecked at any time
MaxSelected == 1

\* the "{n} selected" badge
selectedCount == Len(formData.additionalTech)

\* the checkboxes rendered checked
checkedBoxes == {technologies[i] : i \in {j \in 1..Len(technologies) : isSelected(technologies[j])}}

\* a click on the checkbox of techId: onCheckedChange passes the new state
toggle(techId) ==
    /\ isSelected(techId) \/ selectedCount < MaxSelected
    /\ handleTechChange(techId, ~isSelected(techId))

NextTech ==
    \/ \E i \in 1..Len(technologies) : toggle(technologies[i])
    \/ \E i \in 1..Len(presets) : applyPreset(presets[i])
    \/ clearAll

SpecTech == InitWizard /\ [][NextTech]_vars

(***************************************************************************)
(* Two invocations of generateRules side by side, in every interleaving of *)
(* their statements.                                                       *)
(***************************************************************************)
InitIdle ==
    /\ formData = DefaultForm
    /\ rules = <<>>
    /\ generated = FALSE
    /\ genForm = formData
    /\ memo = NoMemo(formData)
    /\ threw = FALSE
    /\ Quiescent

NextCalls ==
    \/ \E i \in Invocations, fd \in CallForms : Call(i, fd)
    \/ \E i \in Invocations : Step(i)

SpecCalls == InitIdle /\ [][NextCalls]_vars

(***************************************************************************)
(* Loads of rule files, one after the other.                               *)
(***************************************************************************)
NextLoad == \E filePath \in FilePathInputs : loadRuleContent(filePath)

SpecLoad == InitIdle /\ [][NextLoad]_vars

(***************************************************************************)
(* Lookups in the rule loader tables, one after the other.                 *)
(***************************************************************************)
NextLookup ==
    \/ \E key \in KeyInputs : Lookup("getRulesByTechnology", key)
    \/ \E key \in KeyInputs : Lookup("getRulesByFramework", key)
    \/ \E key \in KeyInputs : Lookup("getRulesByCategory", key)
    \/ \E key \in KeyInputs : Lookup("getRuleById", key)

SpecLookup == InitIdle /\ [][NextLookup]_vars

(***************************************************************************)
(* The slideshow (social-slideshow.tsx).  interval is the timer id held by *)
(* the cleanup of the last run of the effect (0 when the effect returned   *)
(* early), timers the timers set and not cleared, each with the totalSlides *)
(* its callback closed over, lastTimer the last id setInterval returned.   *)
(* A handler is taken with the render it causes and the effect of that     *)
(* render: the cleanup of the last run, then the new run, when isPlaying   *)
(* or totalSlides changed.                                                 *)
(***************************************************************************)
\* the ids of the sample tweets and of the sample videos
sampleTweets == <<"1", "2", "3">>
sampleVideos == <<"1", "2", "3">>

currentData(tab) == IF tab = "tweets" THEN sampleTweets ELSE sampleVideos

totalSlides == Len(currentData(activeTab))

\* the remainder a % n of JavaScript: it has the sign of a
Rem(a, n) == IF a >= 0 THEN a % n ELSE 0 - ((0 - a) % n)

\* timers set since the mount
MaxTimers == 10

\* variant: the effect without its cleanup
EffectUncleared(playing, total) ==
    IF <<playing, total>> = <<isPlaying, totalSlides>>
    THEN UNCHANGED <<interval, timers, lastTimer>>
    ELSE IF ~playing
         THEN interval' = 0 /\ timers' = timers /\ lastTimer' = lastTimer
         ELSE /\ interval' = lastTimer + 1
              /\ timers' = timers \cup {[id |-> lastTimer + 1, totalSlides |-> total]}
              /\ lastTimer' = lastTimer + 1

\* useEffect(..., [isPlaying, totalSlides]) after a render with the given
\* isPlaying and totalSlides
Effect(playing, total) ==
    IF <<playing, total>> = <<isPlaying, totalSlides>>
    THEN UNCHANGED <<interval, timers, lastTimer>>
    ELSE LET cleared == {t \in timers : t.id # interval}
         IN  IF ~playing
             THEN interval' = 0 /\ timers' = cleared /\ lastTimer' = lastTimer
             ELSE /\ interval' = lastTimer + 1
                  /\ timers' = cleared \cup {[id |-> lastTimer + 1, totalSlides |-> total]}
                  /\ lastTimer' = lastTimer + 1

\* prev => (prev + 1) % totalSlides
nextIndex(prev, total) == Rem(prev + 1, total)

\* variant: the index before, without the shift by totalSlides
prevIndexUnshifted(prev, total) == Rem(prev - 1, total)

\* prev => (prev - 1 + totalSlides) % totalSlides
prevIndex(prev, total) == Rem(prev - 1 + total, total)

\* the callback of a timer: setCurrentSlide(prev => (prev + 1) % totalSlides)
tick(t) ==
    /\ t \in timers
    /\ currentSlide' = nextIndex(currentSlide, t.totalSlides)
    /\ UNCHANGED <<activeTab, isPlaying, interval, timers, lastTimer>>
    /\ UNCHANGED <<formData, rules, generated, genForm, memo, threw, calls, heap, load,
                   currentStep, isCopying, lookup>>

nextSlide ==
    /\ currentSlide' = nextIndex(currentSlide, totalSlides)
    /\ UNCHANGED <<activeTab, isPlaying, interval, timers, lastTimer>>
    /\ UNCHANGED <<formData, rules, generated, genForm, memo, threw, calls, heap, load,
                   currentStep, isCopying, lookup>>

prevSlide ==
    /\ currentSlide' = prevIndex(currentSlide, totalSlides)
    /\ UNCHANGED <<activeTab, isPlaying, interval, timers, lastTimer>>
    /\ UNCHANGED <<formData, rules, generated, genForm, memo, threw, calls, heap, load,
                   currentStep, isCopying, lookup>>

\* a click on the indicator of index
goToSlide(index) ==
    /\ currentSlide' = index
    /\ UNCHANGED <<activeTab, isPlaying, interval, timers, lastTimer>>
    /\ UNCHANGED <<formData, rules, generated, genForm, memo, threw, calls, heap, load,
                   currentStep, isCopying, lookup>>

\* setIsPlaying(!isPlaying); a new timer is set while fewer than MaxTimers were
toggleAutoplay ==
    /\ isPlaying \/ lastTimer < MaxTimers
    /\ isPlaying' = ~isPlaying
    /\ Effect(~isPlaying, totalSlides)
    /\ UNCHANGED <<currentSlide, activeTab>>
    /\ UNCHANGED <<formData, rules, generated, genForm, memo, threw, calls, heap, load,
                   currentStep, isCopying, lookup>>

switchTab(tab) ==
    /\ Len(currentData(tab)) = totalSlides \/ ~isPlaying \/ lastTimer < MaxTimers
    /\ activeTab' = tab
    /\ currentSlide' = 0
    /\ Effect(isPlaying, Len(currentData(tab)))
    /\ UNCHANGED isPlaying
    /\ UNCHANGED <<formData, rules, generated, genForm, memo, threw, calls, heap, load,
                   currentStep, isCopying, lookup>>

\* the indices of the indicators rendered
indicators == 0..(totalSlides - 1)

NextSlides ==
    \/ \E t \in timers : tick(t)
    \/ nextSlide
    \/ prevSlide
    \/ \E index \in indicators : goToSlide(index)
    \/ toggleAutoplay
    \/ \E tab \in {"tweets", "videos"} : switchTab(tab)

\* the slideshow as mounted: the first tweet, autoplay on, its timer set
SpecSlides == InitIdle /\ [][NextSlides]_vars

\* a timer set and not cleared fires again and again
SpecAutoplay == SpecSlides /\ WF_vars(\E t \in timers : tick(t))

(***************************************************************************)
(* Vocabulary of the properties.                                           *)
(***************************************************************************)
Range(list) == {list[i] : i \in 1..Len(list)}

Filenames(rs) == [i \in 1..Len(rs) |-> rs[i].filename]

Count(rs, name) == Cardinality({i \in 1..Len(rs) : rs[i].filename = name})

\* the record of rs named name (rs holds one)
Doc(rs, name) == rs[CHOOSE i \in 1..Len(rs) : rs[i].filename = name]

AllFrameworkFilenames ==
    UNION {Range(Filenames(FRAMEWORK_TEMPLATES(k))) : k \in FrameworkKeys}

TaskFilename(task) ==
    CASE task = "features" -> "feature-development.mdc"
      [] task = "bugs"     -> "bug-fixing.mdc"
      [] task = "testing"  -> "testing-guidelines.mdc"

TaskCatalog == <<"features", "bugs", "testing">>

\* every name a generated record may bear; each ends in .mdc
MdcFilenames ==
    {"cursor-rules.mdc", "self-improve.mdc", "project-structure.mdc",
     "development-workflow.mdc", "code-quality.mdc"}
    \cup AllFrameworkFilenames
    \cup {TaskFilename(TaskCatalog[i]) : i \in 1..Len(TaskCatalog)}

\* the command strings of a line, in order: the tokens between backquotes
RECURSIVE ScanCommands(_, _, _, _)
ScanCommands(line, i, inside, cur) ==
    IF i > Len(line) THEN <<>>
    ELSE IF line[i] = BT THEN
        IF inside THEN <<cur>> \o ScanCommands(line, i + 1, FALSE, <<>>)
        ELSE ScanCommands(line, i + 1, TRUE, <<>>)
    ELSE ScanCommands(line, i + 1, inside, IF inside THEN Append(cur, line[i]) ELSE cur)

LineCommands(line) == ScanCommands(line, 1, FALSE, <<>>)

\* the command strings of a content (a command string spans no newline)
CommandsOfLines(ls) == Flatten([i \in 1..Len(ls) |-> LineCommands(ls[i])])

Commands(s) == CommandsOfLines(Lines(s))

IsHeading(line) == line # <<>> /\ line[1] \in {"# ", "## "}

\* the lines of the section of the given title, up to the next heading
SectionLines(content, title) ==
    LET ls == Lines(content)
        start == CHOOSE i \in 1..Len(ls) : ls[i] = <<"## ", title>>
        stops == {j \in (start + 1)..Len(ls) : IsHeading(ls[j])}
        stop == IF stops = {} THEN Len(ls) + 1
                ELSE CHOOSE j \in stops : \A k \in stops : j <= k
    IN  SubSeq(ls, start + 1, stop - 1)

SectionCommands(content, title) == CommandsOfLines(SectionLines(content, title))

Workflow(rs) == Doc(rs, "development-workflow.mdc").content

(***************************************************************************)
(* Properties of the rule assembler.                                       *)
(***************************************************************************)

\* C1  Determinism: a call of generateRules on the form of an earlier call
\* returns the list the earlier call returned (same length, and the same
\* filename, content and isStatic at every position), whatever calls were
\* made between the two.
Determinism ==
    (generated /\ memo.has /\ memo.form = genForm) => rules = memo.rules

\* an earlier call on the same form, a call on another form in between
DeterminismWitness ==
    /\ generated /\ memo.has /\ memo.between
    /\ memo.form = genForm
    /\ genForm.framework = "react" /\ genForm.additionalTech = <<"eslint", "typescript">>

\* C2  Static invariant: the first two records are cursor-rules.mdc then
\* self-improve.mdc, both static, and no other record is static.
StaticInvariant ==
    generated =>
        /\ Len(rules) >= 2
        /\ rules[1].filename = "cursor-rules.mdc" /\ rules[1].isStatic
        /\ rules[2].filename = "self-improve.mdc" /\ rules[2].isStatic
        /\ \A i \in 3..Len(rules) : ~rules[i].isStatic

StaticInvariantWitness ==
    /\ generated
    /\ genForm.framework = "react"
    /\ genForm.taskTypes = <<"bugs", "features">>
    /\ Len(rules) = 9

\* C3  Framework gating: when framework is a key of FRAMEWORK_TEMPLATES the
\* framework documents of the result are exactly the entries of that key's
\* mapping, in mapping order and not static, and no document of another
\* framework; for any other value there is no framework document.
FrameworkPart(rs) == SelectSeq(rs, LAMBDA r : r.filename \in AllFrameworkFilenames)

FrameworkGating ==
    generated =>
        IF genForm.framework \in FrameworkKeys
        THEN LET mapping == FRAMEWORK_TEMPLATES(genForm.framework)
             IN  FrameworkPart(rules) =
                     [i \in 1..Len(mapping) |->
                         [filename |-> mapping[i].filename,
                          content |-> mapping[i].content, isStatic |-> FALSE]]
        ELSE FrameworkPart(rules) = <<>>

FrameworkGatingWitness ==
    /\ generated
    /\ genForm.framework = "react"
    /\ Filenames(FrameworkPart(rules)) = <<"react-development.mdc", "typescript-quality.mdc">>

\* C4  Task gating: for each of features, bugs and testing the result holds
\* exactly one document of that task, with the catalog's content, if the
\* task occurs in taskTypes (however often) and none otherwise; an entry
\* outside the catalog adds no document: every name of the result is known.
TaskGating ==
    generated =>
        /\ \A k \in 1..Len(TaskCatalog) :
              LET t == TaskCatalog[k] IN
              IF t \in Range(genForm.taskTypes)
              THEN /\ Count(rules, TaskFilename(t)) = 1
                   /\ Doc(rules, TaskFilename(t)).content = TASK_TEMPLATES(t)
              ELSE Count(rules, TaskFilename(t)) = 0
        /\ Len(rules) = 5 + Len(FrameworkPart(rules))
                          + Cardinality(Range(genForm.taskTypes) \cap Range(TaskCatalog))

\* testing twice and an entry outside the catalog: one testing document
TaskGatingWitness ==
    /\ generated
    /\ genForm.taskTypes = <<"testing", "refactoring", "testing">>
    /\ Count(rules, "testing-guidelines.mdc") = 1
    /\ Count(rules, "feature-development.mdc") = 0
    /\ Count(rules, "bug-fixing.mdc") = 0

\* C5  Filename uniqueness: no two records of the result have the same
\* filename, and every filename is one of the .mdc names of the catalogs
\* and renderers.
FilenameUniqueness ==
    generated =>
        /\ \A i, j \in 1..Len(rules) : rules[i].filename = rules[j].filename => i = j
        /\ \A i \in 1..Len(rules) : rules[i].filename \in MdcFilenames

\* all three task types and a two-document framework
FilenameUniquenessWitness ==
    /\ generated
    /\ Range(genForm.taskTypes) = {"features", "bugs", "testing"}
    /\ genForm.framework = "react"
    /\ Len(rules) = 10

\* C6  Assembly order: static documents, framework documents,
\* project-structure, development-workflow, the selected task documents in
\* the order features, bugs, testing, and code-quality last.
ExpectedOrder(fd) ==
    <<"cursor-rules.mdc", "self-improve.mdc">>
    \o (IF fd.framework \in FrameworkKeys
        THEN Filenames(FRAMEWORK_TEMPLATES(fd.framework)) ELSE <<>>)
    \o <<"project-structure.mdc", "development-workflow.mdc">>
    \o (IF "features" \in Range(fd.taskTypes) THEN <<"feature-development.mdc">> ELSE <<>>)
    \o (IF "bugs" \in Range(fd.taskTypes) THEN <<"bug-fixing.mdc">> ELSE <<>>)
    \o (IF "testing" \in Range(fd.taskTypes) THEN <<"testing-guidelines.mdc">> ELSE <<>>)
    \o <<"code-quality.mdc">>

AssemblyOrder == generated => Filenames(rules) = ExpectedOrder(genForm)

\* the tasks selected in the reverse of the catalog order
AssemblyOrderWitness ==
    /\ generated
    /\ genForm.taskTypes = <<"testing", "bugs", "features">>
    /\ genForm.framework = "vue"
    /\ Filenames(rules) =
          <<"cursor-rules.mdc", "self-improve.mdc", "vue-development.mdc",
            "project-structure.mdc", "development-workflow.mdc",
            "feature-development.mdc", "bug-fixing.mdc", "testing-guidelines.mdc",
            "code-quality.mdc">>

(***************************************************************************)
(* Properties of the command-string deriver and of the renderer.           *)
(***************************************************************************)
PackageManagers == {"npm", "yarn", "pnpm", "bun"}

\* the precedence of the specification, over the set of selected technologies
PrecedencePm(techs) ==
    IF "pnpm" \in techs THEN "pnpm"
    ELSE IF "yarn" \in techs THEN "yarn"
    ELSE IF "bun-pm" \in techs THEN "bun"
    ELSE "npm"

\* the first tokens of the command strings that run another tool
ExternalCommandHeads ==
    {"docker-compose up -d", "docker-compose down", "docker-compose logs -f",
     "docker-compose exec <service> sh", "docker-compose up -d && ",
     "vercel", "vercel --prod", "netlify dev", "netlify deploy", "netlify deploy --prod"}

\* C7 as stated: the package manager follows the precedence pnpm, yarn,
\* bun-pm, npm, and every command string of the development-workflow
\* document starts with it.
EveryCommandPrefixed ==
    generated =>
        LET pm == PrecedencePm(Range(genForm.additionalTech))
            cs == Commands(Workflow(rules))
        IN  /\ getPackageManager(genForm.additionalTech) = pm
            /\ \A i \in 1..Len(cs) : cs[i][1] = pm

\* C7  Package-manager precedence: the package manager follows the
\* precedence pnpm, yarn, bun-pm, npm; every command string of the
\* development-workflow document starts with it or is one of the fixed
\* docker-compose, vercel and netlify commands, which appear only with
\* docker, vercel or netlify selected; no command string names another
\* package manager.
PackageManagerPrecedence ==
    generated =>
        LET techs == Range(genForm.additionalTech)
            pm == PrecedencePm(techs)
            cs == Commands(Workflow(rules))
        IN  /\ getPackageManager(genForm.additionalTech) = pm
            /\ \A i \in 1..Len(cs) :
                  /\ cs[i][1] = pm \/ cs[i][1] \in ExternalCommandHeads
                  /\ cs[i][1] \in ExternalCommandHeads
                        => techs \cap {"docker", "vercel", "netlify"} # {}
                  /\ \A k \in 1..Len(cs[i]) : cs[i][k] \in PackageManagers => cs[i][k] = pm

\* pnpm and yarn both selected: pnpm commands only
PackageManagerPrecedenceWitness ==
    /\ generated
    /\ genForm.additionalTech = <<"yarn", "pnpm">>
    /\ \A i \in 1..Len(Commands(Workflow(rules))) : Commands(Workflow(rules))[i][1] = "pnpm"

\* C8  Derived spellings: the command strings of the Package Management
\* section are install, the add-dependency verb (install for npm, add
\* otherwise), the same with the dev flag (--save-dev for npm, --dev for
\* yarn, -D for pnpm and bun), the update verb (upgrade for yarn, update
\* otherwise), outdated, and the prune verb (autoclean for yarn, clean for
\* bun, prune for npm and pnpm), each after the active package manager.
SpelledAdd(pm) == IF pm = "npm" THEN "install" ELSE "add"
SpelledDevFlag(pm) ==
    CASE pm = "npm" -> "--save-dev" [] pm = "yarn" -> "--dev"
      [] pm \in {"pnpm", "bun"} -> "-D"
SpelledUpdate(pm) == IF pm = "yarn" THEN "upgrade" ELSE "update"
SpelledPrune(pm) ==
    CASE pm = "yarn" -> "autoclean" [] pm = "bun" -> "clean"
      [] pm \in {"npm", "pnpm"} -> "prune"

DerivedSpellings ==
    generated =>
        LET pm == PrecedencePm(Range(genForm.additionalTech))
        IN  SectionCommands(Workflow(rules), "Package Management") =
                << <<pm, " install">>,
                   <<pm, " ", SpelledAdd(pm), " <package>">>,
                   <<pm, " ", SpelledAdd(pm), " <package> ", SpelledDevFlag(pm)>>,
                   <<pm, " ", SpelledUpdate(pm)>>,
                   <<pm, " outdated">>,
                   <<pm, " ", SpelledPrune(pm)>> >>

\* bun active: add, -D, update, clean
DerivedSpellingsWitness ==
    /\ generated
    /\ genForm.additionalTech = <<"bun-pm">>
    /\ <<"bun", " ", "add", " <package> ", "-D">>
          \in Range(SectionCommands(Workflow(rules), "Package Management"))
    /\ <<"bun", " ", "clean">>
          \in Range(SectionCommands(Workflow(rules), "Package Management"))

\* C9 as stated: the end-to-end example yields nine documents, three of
\* them mapped to nextjs, with pnpm install and the dev flag -D.
ExampleNineDocuments ==
    (generated /\ genForm = ExampleForm) =>
        /\ Filenames(rules) =
              <<"cursor-rules.mdc", "self-improve.mdc",
                "nextjs-development.mdc", "react-development.mdc", "typescript-quality.mdc",
                "project-structure.mdc", "development-workflow.mdc",
                "testing-guidelines.mdc", "code-quality.mdc">>
        /\ <<"pnpm", " install">> \in Range(Commands(Workflow(rules)))
        /\ <<"pnpm", " ", "add", " <package> ", "-D">> \in Range(Commands(Workflow(rules)))

\* C10  Frontmatter well-formedness: the first five lines of every record's
\* content are ---, a description: line, a globs: line, an alwaysApply:
\* line and ---; none of them is a heading and a heading follows; in the
\* three rendered documents these five lines are the same for every form.
RenderedFrontmatter(name) ==
    CASE name = "project-structure.mdc" ->
             << <<"---">>, <<"description: ", "Project structure guidelines and organization">>,
                <<"globs: ">>, <<"alwaysApply: ", "false">>, <<"---">> >>
      [] name = "development-workflow.mdc" ->
             << <<"---">>, <<"description: ", "Development workflow and command reference">>,
                <<"globs: ">>, <<"alwaysApply: ", "false">>, <<"---">> >>
      [] name = "code-quality.mdc" ->
             << <<"---">>, <<"description: ", "Code quality standards and best practices">>,
                <<"globs: ">>, <<"alwaysApply: ", "true">>, <<"---">> >>

WellFormedFrontmatter(ls) ==
    /\ Len(ls) > 5
    /\ ls[1] = <<"---">>
    /\ Len(ls[2]) = 2 /\ ls[2][1] = "description: "
    /\ Len(ls[3]) \in {1, 2} /\ ls[3][1] = "globs: "
    /\ Len(ls[4]) = 2 /\ ls[4][1] = "alwaysApply: " /\ ls[4][2] \in {"true", "false"}
    /\ ls[5] = <<"---">>
    /\ \E k \in 6..Len(ls) : IsHeading(ls[k])
    /\ \A k \in 1..Len(ls) : IsHeading(ls[k]) => k > 5

FrontmatterWellFormed ==
    generated =>
        \A i \in 1..Len(rules) :
            LET ls == Lines(rules[i].content) IN
            /\ WellFormedFrontmatter(ls)
            /\ rules[i].filename \in {"project-structure.mdc", "development-workflow.mdc",
                                      "code-quality.mdc"}
                  => SubSeq(ls, 1, 5) = RenderedFrontmatter(rules[i].filename)

\* every free-text field empty, every list empty
FrontmatterWellFormedWitness ==
    /\ generated
    /\ genForm = EmptyForm
    /\ \A i \in 1..Len(rules) : Lines(rules[i].content)[5] = <<"---">>

(***************************************************************************)
(* Properties of the code-quality document.                                *)
(***************************************************************************)
CodeQuality(rs) == Doc(rs, "code-quality.mdc").content

\* the form without the entries of codeQuality equal to entry
WithoutQuality(fd, entry) ==
    [fd EXCEPT !.codeQuality = SelectSeq(@, LAMBDA t : t # entry)]

\* the first line and the number of lines of the example block an entry of
\* codeQuality governs (no line for an entry that governs none)
BlockHead(entry) ==
    IF entry = NoAnyRule THEN <<"// Good: Proper typing">>
    ELSE IF entry = ErrorBoundaryRule THEN <<"// Good: Error boundary implementation">>
    ELSE <<>>

BlockHeight(entry) ==
    IF entry = NoAnyRule THEN 13
    ELSE IF entry = ErrorBoundaryRule THEN 12
    ELSE 0

\* the lines ls without the example block of entry
WithoutBlock(ls, entry) ==
    LET at == {i \in 1..Len(ls) : ls[i] = BlockHead(entry)}
    IN  IF BlockHead(entry) = <<>> \/ at = {} THEN ls
        ELSE LET p == CHOOSE i \in at : TRUE
             IN  SubSeq(ls, 1, p - 1) \o SubSeq(ls, p + BlockHeight(entry), Len(ls))

\* the lines ls without the lines of the section of the given title
OutsideSection(ls, title) ==
    LET start == CHOOSE i \in 1..Len(ls) : ls[i] = <<"## ", title>>
        stops == {j \in (start + 1)..Len(ls) : IsHeading(ls[j])}
        stop == CHOOSE j \in stops : \A k \in stops : j <= k
    IN  SubSeq(ls, 1, start) \o SubSeq(ls, stop, Len(ls))

\* what a code-quality document holds besides the bullets of its rules and
\* the example block of entry
QualityFrame(content, entry) ==
    WithoutBlock(OutsideSection(Lines(content), "Code Quality Rules"), entry)

\* C11  Code-quality toggle: the code-quality document holds the "Good:
\* Proper typing" example block exactly when codeQuality holds the literal
\* "No `any` types allowed", and the error-boundary example block exactly
\* when codeQuality holds "Enforce error boundaries"; the section of the rules
\* holds one bullet for each entry of codeQuality; and removing any entry from
\* codeQuality changes nothing of the document but these bullets and the
\* example block that entry governs (none for an entry that is neither
\* literal).
CodeQualityToggle ==
    generated =>
        LET content == CodeQuality(rules)
            ls == Lines(content)
            cq == genForm.codeQuality
        IN  /\ (BlockHead(NoAnyRule) \in Range(ls)) <=> (NoAnyRule \in Range(cq))
            /\ (BlockHead(ErrorBoundaryRule) \in Range(ls))
                   <=> (ErrorBoundaryRule \in Range(cq))
            /\ SelectSeq(SectionLines(content, "Code Quality Rules"),
                         LAMBDA l : l # <<>>)
                   = [i \in 1..Len(cq) |-> <<"- ">> \o Text(cq[i])]
            /\ \A entry \in Range(cq) :
                   QualityFrame(content, entry)
                       = QualityFrame(generateCodeQualityRule(
                                          WithoutQuality(genForm, entry)), entry)

\* a call on a form whose codeQuality holds the first literal and an entry
\* that is neither literal: the first example block is there, the second is not
CodeQualityToggleWitness ==
    /\ generated
    /\ genForm.codeQuality = <<NoAnyRule, "Strict TypeScript mode">>
    /\ BlockHead(NoAnyRule) \in Range(Lines(CodeQuality(rules)))
    /\ BlockHead(ErrorBoundaryRule) \notin Range(Lines(CodeQuality(rules)))

(***************************************************************************)
(* Properties of the command-string deriver.                               *)
(***************************************************************************)
\* the values generateDevelopmentWorkflowRule derives that read additionalTech only
DerivedFromTech(fd) ==
    LET packageManager == getPackageManager(fd.additionalTech)
    IN  [packageManager |-> packageManager,
         installCommand |-> installCommand(packageManager),
         devInstallFlag |-> devInstallFlag(packageManager),
         updateCommand  |-> updateCommand(packageManager),
         pruneCommand   |-> pruneCommand(packageManager),
         hasTesting     |-> hasTesting(fd),
         hasLinting     |-> hasLinting(fd),
         buildTool      |-> buildTool(fd),
         hasTypeScript  |-> hasTypeScript(fd)]

\* forms of the same additionalTech as fd that differ from it in another field
SameTechForms(fd) ==
    {[fd EXCEPT !.projectType = pt] : pt \in {"single", "monorepo", "microservices", ""}}
    \cup {[fd EXCEPT !.framework = f] : f \in {"", "react"}}
    \cup {[fd EXCEPT !.taskTypes = tt] : tt \in {<<>>, <<"testing">>}}
    \cup {[fd EXCEPT !.codeQuality = <<>>, !.sourceDirectory = <<>>]}

IsMonorepoType(fd) == fd.projectType = "monorepo"

\* C12 as stated: every form of the same additionalTech as the form of the
\* call has the same derived values, the monorepo flag among them, and the
\* same development-workflow document as the one the call returned,
\* whatever its other fields are.
DeriverOfTechOnly ==
    generated =>
        \A g \in SameTechForms(genForm) :
            /\ DerivedFromTech(g) = DerivedFromTech(genForm)
            /\ hasMonorepo(g) = hasMonorepo(genForm)
            /\ generateDevelopmentWorkflowRule(g) = Workflow(rules)

\* C12  The deriver reads additionalTech and whether projectType is
\* "monorepo", nothing else: every form of the same additionalTech as the
\* form of the call has the same package manager, verbs, dev flag, testing,
\* linting and TypeScript flags and bundler label; if it also agrees with it
\* on projectType being "monorepo", it has the same monorepo flag and the
\* same development-workflow document as the one the call returned.
DeriverOfTechAndMonorepoType ==
    generated =>
        \A g \in SameTechForms(genForm) :
            /\ DerivedFromTech(g) = DerivedFromTech(genForm)
            /\ IsMonorepoType(g) = IsMonorepoType(genForm)
                   => /\ hasMonorepo(g) = hasMonorepo(genForm)
                      /\ generateDevelopmentWorkflowRule(g) = Workflow(rules)

\* a call on a single-package form with a testing tool, whose document is
\* that of the microservices form but not that of the monorepo form
DeriverOfTechAndMonorepoTypeWitness ==
    /\ generated
    /\ genForm.additionalTech = <<"jest", "pnpm">>
    /\ genForm.projectType = "single"
    /\ Workflow(rules)
           = generateDevelopmentWorkflowRule([genForm EXCEPT !.projectType = "microservices"])
    /\ Workflow(rules)
           # generateDevelopmentWorkflowRule([genForm EXCEPT !.projectType = "monorepo"])

(***************************************************************************)
(* Selections read as sets.                                                *)
(***************************************************************************)
Reverse(list) == [i \in 1..Len(list) |-> list[Len(list) + 1 - i]]

\* lists of the entries of list in another order or with entries repeated
Rearrangements(list) ==
    {Reverse(list), list \o list}
    \cup (IF list = <<>> THEN {} ELSE {<<list[Len(list)]>> \o list})

\* forms that differ from fd only in the order of, or in repeated entries
\* within, additionalTech or taskTypes
SameSelectionForms(fd) ==
    {[fd EXCEPT !.additionalTech = at] : at \in Rearrangements(fd.additionalTech)}
    \cup {[fd EXCEPT !.taskTypes = tt] : tt \in Rearrangements(fd.taskTypes)}
    \cup {[fd EXCEPT !.additionalTech = Reverse(@), !.taskTypes = Reverse(@)]}

\* C13  Set semantics of selections: generateRules returns the list the call
\* returned for every form that differs from the form of the call only in the
\* order of, or in repeated entries within, additionalTech or taskTypes.
SetSemantics ==
    generated => \A g \in SameSelectionForms(genForm) : generateRules(g) = rules

\* a call on a form of two technologies the deriver reads, in the order
\* opposite to the order the deriver tests them in
SetSemanticsWitness ==
    /\ generated
    /\ genForm.additionalTech = <<"yarn", "typescript">>
    /\ generateRules([genForm EXCEPT !.additionalTech = <<"typescript", "yarn">>]) = rules
    /\ hasTypeScript(genForm)

(***************************************************************************)
(* Totality.                                                               *)
(***************************************************************************)
\* C14 as stated: no invocation of generateRules fails, the invocations on
\* forms with absent lists included: it completes and returns the full rule
\* set (the two static documents and the three rendered ones at least).
Totality ==
    /\ ~threw
    /\ generated => {"cursor-rules.mdc", "self-improve.mdc", "project-structure.mdc",
                     "development-workflow.mdc", "code-quality.mdc"}
                        \subseteq Range(Filenames(rules))

(***************************************************************************)
(* Technologies the generation logic does not read.                        *)
(***************************************************************************)
\* identifiers of the technology catalog no test of the generation logic names
UnknownTech == (TechInputs \ RecognisedTech) \cup {"react"}

WithoutTech(fd, techId) ==
    [fd EXCEPT !.additionalTech = SelectSeq(@, LAMBDA t : t # techId)]

\* C15  Unknown technologies are ignored: the list a call returned is the
\* list generateRules returns for the form with one more technology that is
\* none of the seventeen the generation logic tests for, and for the form
\* without such a technology if the form of the call holds one; a call on a
\* form whose lists are all present raises no error.
UnknownTechIgnored ==
    /\ generated =>
        /\ \A u \in UnknownTech :
               generateRules([genForm EXCEPT !.additionalTech = Append(@, u)]) = rules
        /\ \A u \in Range(genForm.additionalTech) \ RecognisedTech :
               generateRules(WithoutTech(genForm, u)) = rules
    /\ formData.absent = {} => ~threw

\* a call on a form that selects an unknown technology before a testing tool
UnknownTechIgnoredWitness ==
    /\ generated
    /\ ~threw
    /\ genForm.additionalTech = <<"bun", "jest">>
    /\ generateRules(WithoutTech(genForm, "bun")) = rules

(***************************************************************************)
(* Independence of invocations.                                            *)
(***************************************************************************)
Active(i) == calls[i].pc # "idle"

\* C16  Independence of invocations: in every interleaving of the statements
\* of two invocations, the list an invocation returns is the list
\* generateRules yields for its form alone and, while it runs, its list holds
\* only records of its own form (a prefix of that list); the lists of two
\* invocations are distinct objects; and no statement changes the form an
\* invocation was given.
Independence ==
    /\ [](\A i \in Invocations :
              Active(i) =>
                  LET mine == heap[calls[i].list]
                      alone == generateRules(calls[i].form)
                  IN  /\ Len(mine) <= Len(alone)
                      /\ mine = SubSeq(alone, 1, Len(mine))
                      /\ calls[i].pc = "done" => mine = alone)
    /\ [](\A i, j \in Invocations :
              Active(i) /\ Active(j) /\ i # j => calls[i].list # calls[j].list)
    /\ [][\A i \in Invocations : Active(i) => calls'[i].form = calls[i].form]_vars

\* both invocations have returned, each on its own form and with its own list
IndependenceWitness ==
    /\ calls[1].pc = "done" /\ calls[2].pc = "done"
    /\ calls[1].form = ExampleForm /\ calls[2].form = DefaultForm
    /\ calls[1].list = 1 /\ calls[2].list = 2
    /\ heap[1] = generateRules(ExampleForm)
    /\ heap[2] = generateRules(DefaultForm)

(***************************************************************************)
(* The failure contract of the file loader.                                *)
(***************************************************************************)
\* C17  File-loader failure contract: a settled loadRuleContent(filePath) has
\* resolved with the whole content of the file at filePath if the read
\* succeeded, and has rejected with a message that holds filePath and the
\* message of the error thrown if the read failed; it has not resolved after
\* a failed read, nor resolved with anything but the whole content.
LoaderContract ==
    load.settled # "pending" =>
        /\ load.outcome.ok =>
               /\ load.settled = "resolved"
               /\ load.value = FileContent(load.filePath)
        /\ ~load.outcome.ok =>
               /\ load.settled = "rejected"
               /\ load.message[1] = "Failed to load rule from "
               /\ load.message[2] = load.filePath
               /\ load.message[4] = load.outcome.message
               /\ load.outcome.message \in ReadErrors

\* a load of a file of the catalog that the file system refused
LoaderContractWitness ==
    /\ load.settled = "rejected"
    /\ load.filePath = "src/rules/tasks/bugs.mdc"
    /\ load.message = <<"Failed to load rule from ", "src/rules/tasks/bugs.mdc", ": ",
                        "ENOENT: no such file or directory">>

(***************************************************************************)
(* Properties of the wizard.                                               *)
(***************************************************************************)
\* C18 as stated: the number of files the review step announces for the form
\* of a call is the number of records the call returned.
AnnouncedCount ==
    generated => Len(rules) = AnnouncedFiles(genForm)

\* the documents the end-to-end tests expect after a selection of React
ReactDocuments ==
    {"react-development.mdc", "typescript-quality.mdc",
     "project-structure.mdc", "development-workflow.mdc"}

ProjectStructure(rs) == Doc(rs, "project-structure.mdc").content

\* the number of lines of ls that are the text alone
Occurrences(ls, text) == Cardinality({i \in 1..Len(ls) : ls[i] = <<text>>})

\* the paragraph of Structure Requirements expected for a project type
ExpectedRequirements(projectType) ==
    IF projectType = "monorepo" THEN
        << <<"- Use monorepo structure with clear package boundaries">>,
           <<"- Shared utilities in common packages">>,
           <<"- Independent deployment capabilities">> >>
    ELSE IF projectType = "microservices" THEN
        << <<"- Service-oriented architecture">>,
           <<"- Clear API boundaries between services">>,
           <<"- Independent scaling and deployment">> >>
    ELSE
        << <<"- Single application structure">>,
           <<"- Clear separation of concerns">>,
           <<"- Modular component organization">> >>

\* C21  Mutually exclusive blocks: the Structure Requirements section of the
\* project-structure document holds the three lines of one paragraph and no
\* other line of text: the monorepo paragraph exactly when projectType is
\* "monorepo", the microservices paragraph exactly when it is
\* "microservices", the single-application paragraph for every other value;
\* and the document holds the first line of exactly one directory tree, that
\* of the feature-based tree exactly when componentOrganization is
\* "feature-based".
ExclusiveBlocks ==
    generated =>
        LET content == ProjectStructure(rules)
            ls == Lines(content)
            featureBased == genForm.componentOrganization = "feature-based"
        IN  /\ SelectSeq(SectionLines(content, "Structure Requirements"),
                         LAMBDA l : l # <<>>)
                   = ExpectedRequirements(genForm.projectType)
            /\ Occurrences(ls, "|-- features/") = (IF featureBased THEN 1 ELSE 0)
            /\ Occurrences(ls, "|-- components/") = (IF featureBased THEN 0 ELSE 1)
            /\ Occurrences(ls, "|   +-- dashboard/") = (IF featureBased THEN 1 ELSE 0)
            /\ Occurrences(ls, "+-- utils/") = (IF featureBased THEN 0 ELSE 1)

\* a call on a microservices form organised by feature
ExclusiveBlocksWitness ==
    /\ generated
    /\ genForm.projectType = "microservices"
    /\ genForm.componentOrganization = "feature-based"
    /\ <<"- Service-oriented architecture">> \in Range(Lines(ProjectStructure(rules)))
    /\ <<"- Single application structure">> \notin Range(Lines(ProjectStructure(rules)))

(***************************************************************************)
(* Properties of the sections of the development-workflow document.        *)
(***************************************************************************)
HasSection(ls, title) == <<"## ", title>> \in Range(ls)

\* some command string of cmds is a package-manager name followed by rest
UsesCommand(cmds, rest) == \E c \in Range(cmds) : Len(c) >= 2 /\ c[2] = rest

LastLine(content) == LET ls == Lines(content) IN ls[Len(ls)]

TroubleshootingLine(tool) ==
    <<"- If ", tool, " is acting up: Clear cache and restart dev server">>

\* C22  Conditional workflow groups: the development-workflow document holds
\* the Type Checking heading exactly when typescript is selected, the Code
\* Quality heading exactly when one of eslint, biome, prettier is, the
\* Testing heading exactly when one of jest, vitest, cypress, playwright is,
\* the Docker Commands heading exactly when docker is; a section that is
\* there lists a command, and the commands of a section whose flag is false
\* appear nowhere in the document; the last line names webpack exactly when
\* webpack is selected and vite otherwise, also when vite is selected too.
WorkflowGroups ==
    generated =>
        LET content == Workflow(rules)
            ls == Lines(content)
            cmds == CommandsOfLines(ls)
            at == Range(genForm.additionalTech)
            typed == "typescript" \in at
            linted == at \cap {"eslint", "biome", "prettier"} # {}
            tested == at \cap {"jest", "vitest", "cypress", "playwright"} # {}
            docker == "docker" \in at
            tool == IF "webpack" \in at THEN "webpack" ELSE "vite"
        IN  /\ HasSection(ls, "Type Checking") <=> typed
            /\ HasSection(ls, "Code Quality") <=> linted
            /\ HasSection(ls, "Testing") <=> tested
            /\ HasSection(ls, "Docker Commands") <=> docker
            /\ \A t \in {"Type Checking", "Code Quality", "Testing", "Docker Commands"} :
                   HasSection(ls, t) => SectionCommands(content, t) # <<>>
            /\ UsesCommand(cmds, " type-check:watch") <=> typed
            /\ UsesCommand(cmds, " lint") <=> linted
            /\ UsesCommand(cmds, " test") <=> tested
            /\ (<<"docker-compose down">> \in Range(cmds)) <=> docker
            /\ ls[Len(ls)] = TroubleshootingLine(tool)
            /\ LastLine(generateDevelopmentWorkflowRule(
                   [genForm EXCEPT !.additionalTech = Append(@, "vite")]))
                   = TroubleshootingLine(tool)

\* a call on a form with webpack and a linter and neither typescript, a
\* testing tool nor docker
WorkflowGroupsWitness ==
    /\ generated
    /\ genForm.additionalTech = <<"webpack", "prettier">>
    /\ HasSection(Lines(Workflow(rules)), "Code Quality")
    /\ ~HasSection(Lines(Workflow(rules)), "Testing")
    /\ LastLine(Workflow(rules)) = TroubleshootingLine("webpack")

(***************************************************************************)
(* Properties of the panel of the generated rules.                         *)
(***************************************************************************)
FiveDocuments ==
    {"cursor-rules.mdc", "self-improve.mdc", "project-structure.mdc",
     "development-workflow.mdc", "code-quality.mdc"}

\* C23 as stated: after a completed generation the list holds the five
\* documents every form yields, the panel reports the rules as ready, and the
\* Copy All and Download buttons are both enabled.
PanelEnabledAfterGeneration ==
    generated =>
        /\ FiveDocuments \subseteq Range(Filenames(rules))
        /\ PanelMessage(rules) = "Your custom cursor rules are ready"
        /\ ~CopyAllDisabled(rules, isCopying)
        /\ ~DownloadDisabled(rules)

\* C23  Generation never yields an empty rule set: after a completed
\* generation the list holds at least the five documents every form yields,
\* the panel reports the rules as ready, the Download button is enabled, and
\* the Copy All button is disabled exactly while a copy is in progress;
\* before any generation the list is empty and both buttons are disabled.
PanelAfterGeneration ==
    /\ generated =>
        /\ FiveDocuments \subseteq Range(Filenames(rules))
        /\ Len(rules) >= 5
        /\ PanelMessage(rules) = "Your custom cursor rules are ready"
        /\ ~DownloadDisabled(rules)
        /\ CopyAllDisabled(rules, isCopying) <=> isCopying
    /\ ~generated =>
        /\ rules = <<>>
        /\ DownloadDisabled(rules)
        /\ CopyAllDisabled(rules, isCopying)

\* rules generated from the form with nothing selected, a copy in progress
PanelAfterGenerationWitness ==
    /\ generated
    /\ genForm = DefaultForm
    /\ isCopying
    /\ CopyAllDisabled(rules, isCopying)
    /\ ~DownloadDisabled(rules)

(***************************************************************************)
(* Properties of the technology step.                                      *)
(***************************************************************************)
NoDuplicates(list) == \A i, j \in 1..Len(list) : list[i] = list[j] => i = j

\* the entries of list other than techId, in their order
Others(list, techId) == SelectSeq(list, LAMBDA t : t # techId)

\* C24  Preset replaces the selection: a step applyPreset(P), from any prior
\* selection, leaves exactly the technologies of P selected, in P's order:
\* exactly P's checkboxes are checked and the "selected" count is the size of
\* P; a step clearAll leaves no technology selected, no box checked and the
\* count 0.
PresetReplaces ==
    [][/\ \A i \in 1..Len(presets) :
             applyPreset(presets[i]) =>
                 /\ formData'.additionalTech = presets[i]
                 /\ checkedBoxes' = Range(presets[i])
                 /\ selectedCount' = Len(presets[i])
                 /\ selectedCount' = Cardinality(checkedBoxes')
       /\ clearAll => (formData'.additionalTech = <<>> /\ checkedBoxes' = {}
                      /\ selectedCount' = 0)]_vars

\* the MERN preset is the selection: TypeScript, part of the other three
\* presets, is not selected
PresetReplacesWitness ==
    /\ formData.additionalTech = presets[2]
    /\ ~isSelected("typescript")
    /\ selectedCount = 10

\* C25  Selection invariant: from the empty selection, after any sequence of
\* checkbox toggles, preset applications and "Clear all", additionalTech
\* holds no identifier twice and only identifiers of the catalog; a toggle
\* of a checkbox flips its membership and a second toggle brings it back,
\* the other entries and their relative order unchanged by either.
SelectionInvariant ==
    /\ [](/\ NoDuplicates(formData.additionalTech)
          /\ Range(formData.additionalTech) \subseteq Range(technologies)
          /\ \A i \in 1..Len(technologies) :
                LET t == technologies[i]
                    now == formData.additionalTech
                    once == updatedTech(now, t, ~Includes(now, t))
                    twice == updatedTech(once, t, ~Includes(once, t))
                IN  /\ Includes(once, t) # Includes(now, t)
                    /\ Includes(twice, t) = Includes(now, t)
                    /\ Others(once, t) = Others(now, t)
                    /\ Others(twice, t) = Others(now, t)
                    /\ NoDuplicates(once) /\ NoDuplicates(twice))
    /\ [][\A i \in 1..Len(technologies) :
             toggle(technologies[i]) =>
                 /\ isSelected(technologies[i])' # isSelected(technologies[i])
                 /\ Others(formData'.additionalTech, technologies[i])
                        = Others(formData.additionalTech, technologies[i])]_vars

\* the MERN preset with React unchecked: the nine others in their order
SelectionInvariantWitness ==
    /\ formData.additionalTech = Others(presets[2], "react")
    /\ selectedCount = 9
    /\ checkedBoxes = Range(presets[2]) \ {"react"}

\* C26  Package manager reachable from the UI: for every selection reachable
\* through the technology step the derived package manager is npm, and the
\* development-workflow document of the form names no pnpm, yarn or bun
\* command; the catalog holds bun but none of pnpm, yarn and bun-pm.
ReachablePackageManager ==
    LET content == generateDevelopmentWorkflowRule(formData)
        cs == Commands(content)
    IN  /\ getPackageManager(formData.additionalTech) = "npm"
        /\ Range(technologies) \cap {"pnpm", "yarn", "bun-pm"} = {}
        /\ "bun" \in Range(technologies)
        /\ \A k \in 1..Len(content) : content[k] \notin {"pnpm", "yarn", "bun"}
        /\ \A i \in 1..Len(cs) : cs[i][1] = "npm" \/ cs[i][1] \in ExternalCommandHeads

\* Bun checked: npm commands all the same
ReachablePackageManagerWitness ==
    /\ formData.additionalTech = <<"bun">>
    /\ Commands(generateDevelopmentWorkflowRule(formData))[1] = <<"npm", " install">>

(***************************************************************************)
(* Properties of the lines of the development-workflow document.           *)
(***************************************************************************)
\* C27  One command per line: every command entry of the
\* development-workflow document starts on a line of its own, no line holds
\* two command entries, and every section heading starts a line.
OneCommandPerLine ==
    generated =>
        LET ls == Lines(Workflow(rules))
        IN  \A i \in 1..Len(ls) :
                /\ \A k \in 1..Len(ls[i]) : ls[i][k] \in {"- ", "## ", "# "} => k = 1
                /\ (ls[i] # <<>> /\ ls[i][1] = "- ") => Len(LineCommands(ls[i])) = 1

(***************************************************************************)
(* Properties of the rule loader tables.                                   *)
(***************************************************************************)
\* the rule ids listed by the frameworks of TECHNOLOGY_CONFIG
ConfiguredRuleIds ==
    UNION {UNION {Range(TECHNOLOGY_CONFIG[t].frameworks[f].rules) :
                    f \in 1..Len(TECHNOLOGY_CONFIG[t].frameworks)} :
             t \in 1..Len(TECHNOLOGY_CONFIG)}

RecordsOfId(id) == {i \in 1..Len(RULE_METADATA) : RULE_METADATA[i].id = id}

\* the records a lookup by fn and key is to return
Matching(fn, key) ==
    {i \in 1..Len(RULE_METADATA) :
        CASE fn = "getRulesByTechnology" -> key \in RULE_METADATA[i].technology
          [] fn = "getRulesByFramework" -> key \in RULE_METADATA[i].framework
          [] fn = "getRulesByCategory" -> key = RULE_METADATA[i].category
          [] fn = "getRuleById" -> key = RULE_METADATA[i].id
          [] OTHER -> FALSE}

\* C28  Referential integrity of the rule loader tables: rule ids are
\* unique; every rule id listed by a framework of TECHNOLOGY_CONFIG resolves
\* through getRuleById to the one RULE_METADATA record of that id; a lookup
\* never throws, returns records that match its key only, and returns
\* undefined (getRuleById) or the empty list for a key that matches nothing.
ReferentialIntegrity ==
    /\ \A i, j \in 1..Len(RULE_METADATA) :
          RULE_METADATA[i].id = RULE_METADATA[j].id => i = j
    /\ \A id \in ConfiguredRuleIds :
          /\ Cardinality(RecordsOfId(id)) = 1
          /\ Len(getRuleById(id)) = 1
          /\ getRuleById(id)[1].id = id
    /\ ~lookup.threw
    /\ (lookup.fn = "getRuleById" /\ lookup.key \in ConfiguredRuleIds)
          => (Len(lookup.returned) = 1 /\ lookup.returned[1].id = lookup.key)
    /\ \A k \in 1..Len(lookup.returned) :
          \E i \in Matching(lookup.fn, lookup.key) : lookup.returned[k] = RULE_METADATA[i]
    /\ Matching(lookup.fn, lookup.key) = {} => lookup.returned = <<>>

\* java-development, a record without framework, found by its id; no record
\* has the framework svelte
ReferentialIntegrityWitness ==
    /\ lookup.fn = "getRuleById"
    /\ lookup.key = "java-development"
    /\ lookup.returned = <<RULE_METADATA[5]>>
    /\ getRulesByFramework("svelte") = <<>>

(***************************************************************************)
(* Properties of the slideshow.                                            *)
(***************************************************************************)
\* C29  Slideshow index in range: after any sequence of nextSlide,
\* prevSlide, goToSlide on an indicator of the active tab, switchTab,
\* toggleAutoplay and timer ticks, currentSlide is an index of the active
\* tab's list, so the slide rendered is defined; nextSlide and prevSlide
\* wrap around at the ends and undo each other; switchTab resets
\* currentSlide to 0 and leaves isPlaying as it was.
SlideInRange ==
    /\ [](/\ currentSlide \in 0..(totalSlides - 1)
          /\ currentSlide + 1 \in DOMAIN currentData(activeTab)
          /\ prevIndex(nextIndex(currentSlide, totalSlides), totalSlides) = currentSlide
          /\ nextIndex(prevIndex(currentSlide, totalSlides), totalSlides) = currentSlide)
    /\ [][/\ nextSlide =>
               currentSlide' = IF currentSlide = totalSlides - 1 THEN 0 ELSE currentSlide + 1
          /\ prevSlide =>
               currentSlide' = IF currentSlide = 0 THEN totalSlides - 1 ELSE currentSlide - 1
          /\ \A tab \in {"tweets", "videos"} :
               switchTab(tab) =>
                   (currentSlide' = 0 /\ activeTab' = tab /\ isPlaying' = isPlaying)]_vars

\* the last video shown with autoplay paused: a tab was switched and the
\* index moved since the mount
SlideInRangeWitness ==
    /\ activeTab = "videos"
    /\ currentSlide = Len(sampleVideos) - 1
    /\ ~isPlaying

\* C30  Slideshow autoplay: a timer is set exactly while isPlaying is true,
\* and it is the one of the last run of the effect, so after a pause no tick
\* of an earlier timer is applied and no tick changes currentSlide while
\* isPlaying is false; every tick advances currentSlide by one modulo the
\* number of slides of the active tab; with autoplay left on, only ticks
\* occurring from some point on, every slide is shown again and again.
AutoplayTicks ==
    /\ [](/\ isPlaying <=> timers # {}
          /\ \A t \in timers : t.id = interval /\ t.totalSlides = totalSlides)
    /\ [][\A t \in timers :
             tick(t) => (isPlaying /\ currentSlide' = (currentSlide + 1) % totalSlides)]_vars
    /\ [][(~isPlaying /\ currentSlide' # currentSlide)
             => (nextSlide \/ prevSlide \/ (\E index \in indicators : goToSlide(index))
                 \/ \E tab \in {"tweets", "videos"} : switchTab(tab))]_vars
    /\ \A index \in 0..(Len(sampleTweets) - 1) :
          (<>[]isPlaying /\ <>[][\E t \in timers : tick(t)]_vars)
              => []<>(currentSlide = index)

\* autoplay paused after timers were set and cleared, the second slide shown
AutoplayTicksWitness ==
    /\ ~isPlaying
    /\ timers = {}
    /\ lastTimer > 1
    /\ currentSlide = 1

====
